---- MODULE Spec2Model ----
(***************************************************************************)
(* Model of the auto-release action's changelog and version engine:        *)
(*   lib.ts  (bundled in src/CHANGELOG.md, lines 21-387): parseVersion,    *)
(*           bumpVersion, determineBumpType, shouldSkipRelease,            *)
(*           categorizeChanges, updateChangelog                            *)
(*   run.ts  (src/auto-release/src/run.ts): the action runner              *)
(*                                                                         *)
(* Six specifications share the variables below:                           *)
(*   Spec     - a changelog document under repeated updateChangelog calls  *)
(*   SpecCat  - categorizeChanges, one loop iteration per step             *)
(*   SpecRun  - run(), one awaited call or return per step                 *)
(*   SpecVer  - bumpVersion, formatVersion applied to bounded versions     *)
(*   SpecParse - parseVersion applied to bounded texts                     *)
(*   SpecNorm - the heading replace of updateChangelog on bounded texts    *)
(***************************************************************************)
EXTENDS Integers, Sequences, FiniteSets, TLC

VARIABLES
    releases,        \* changelog.releases of the document being merged
    last,            \* the last updateChangelog call: its arguments and the list it was given
    calls,           \* number of updateChangelog calls made
    rendered,        \* updateChangelog: changelog.toString(), as lines of characters
    result,          \* updateChangelog: let result after the replace (the returned text)
    again,           \* the replace applied to the returned text
    passes,          \* number of times the replace was applied
    lines,           \* categorizeChanges: prBody.split('\n')
    pos,             \* categorizeChanges: index of the next line of the for loop
    currentSection,  \* categorizeChanges: let currentSection
    categories,      \* categorizeChanges: const categories
    routed,          \* categorizeChanges: what the last loop iteration did
    pc,              \* run: position in run()
    env,             \* run: what the injected dependencies return
    pr,              \* run: const pr (NoPR before findMergedPR returned one)
    bumpType,        \* run: let bumpType ("" before it is assigned)
    newTag,          \* run: const newTag (empty before it is computed)
    effects,         \* run: calls made on the injected dependencies, in order
    outputs,         \* run: setOutput calls, name -> value
    failed,          \* run: number of setFailed calls
    failure,         \* run: the message of the setFailed call ("" before one)
    changelog,       \* run: let changelog (empty before it is assigned)
    written,         \* run: the text given to writeFile (empty before the call)
    release,         \* run: the arguments of createRelease (NoRelease before the call)
    ver,             \* bumpVersion: argument version
    bumpArg,         \* bumpVersion: argument bump ("" before the first call)
    bumped,          \* bumpVersion: returned version
    vstage,          \* version texts: "idle", "input", "formatted" or "parsed"
    vflag,           \* formatVersion: argument includeV
    vtext,           \* the text formatVersion returned or parseVersion is given
    vparsed,         \* parseVersion: returned value
    vback            \* formatVersion of vparsed (empty before it is computed)

vars == << releases, last, calls, rendered, result, again, passes,
           lines, pos, currentSection, categories, routed,
           pc, env, pr, bumpType, newTag, effects, outputs, failed, failure, changelog, written,
           release, ver, bumpArg, bumped,
           vstage, vflag, vtext, vparsed, vback >>

normVars == << rendered, result, again, passes >>
docVars == << releases, last, calls, normVars >>
catVars == << lines, pos, currentSection, categories, routed >>
runVars == << pc, env, pr, bumpType, newTag, effects, outputs, failed, failure, changelog, written,
             release >>
txtVars == << vstage, vflag, vtext, vparsed, vback >>
verVars == << ver, bumpArg, bumped, txtVars >>

(***************************************************************************)
(* Bounds                                                                  *)
(***************************************************************************)
MaxCalls == 2          \* updateChangelog calls in one behaviour
MaxInitReleases == 2   \* releases in the parsed document
MaxLines == 3          \* lines of a PR body
MaxNum == 3            \* largest major/minor/patch number of an input version
MaxLabels == 2         \* labels on a PR
MaxDigits == 2         \* digits of a number of an input version text
MaxRendered == 2       \* lines of a rendered changelog text

(***************************************************************************)
(* Shared data                                                             *)
(***************************************************************************)
\* The six keep-a-changelog categories, in the order the Map is built.
CategoryOrder == << "Added", "Changed", "Deprecated", "Removed", "Fixed", "Security" >>

Categories == { CategoryOrder[i] : i \in 1..Len(CategoryOrder) }

\* new Map with every category mapped to [].
EmptyChanges == [ c \in Categories |-> << >> ]

\* Texts are sequences of one-character strings, so that a prefix can be stripped.
Digits == << "0", "1", "2", "3", "4", "5", "6", "7", "8", "9" >>

VerText(a, b, c) == << Digits[a + 1], ".", Digits[b + 1], ".", Digits[c + 1] >>

\* The version of a release without one (Release() with no argument); falsy, as in '!r.version'.
NoVersion == << >>

SeqsUpTo(S, n) == UNION { [1..k -> S] : k \in 0..n }

(***************************************************************************)
(* Versions (src/CHANGELOG.md:30-88)                                       *)
(***************************************************************************)
BumpTypes == { "major", "minor", "patch" }

\* prerelease: undefined
NoPrerelease == << >>

\* The null result of parseVersion.
Null == [ null |-> TRUE ]

IsDigit(ch) == \E i \in 1..Len(Digits) : Digits[i] = ch

DigitValue(ch) == (CHOOSE i \in 1..Len(Digits) : Digits[i] = ch) - 1

\* Number.parseInt(digits, 10)
RECURSIVE ParseInt(_)
ParseInt(digits) ==
    IF digits = << >> THEN 0
    ELSE 10 * ParseInt(SubSeq(digits, 1, Len(digits) - 1)) + DigitValue(digits[Len(digits)])

\* `${n}` for a non-negative integer
RECURSIVE NumText(_)
NumText(n) ==
    IF n < 10 THEN << Digits[n + 1] >>
    ELSE NumText(n \div 10) \o << Digits[(n % 10) + 1] >>

\* The longest run of digits text starts with.
RECURSIVE DigitRun(_)
DigitRun(text) ==
    IF text # << >> /\ IsDigit(Head(text)) THEN << Head(text) >> \o DigitRun(Tail(text))
    ELSE << >>

Drop(text, n) == SubSeq(text, n + 1, Len(text))

\* parseVersion with the bug of a pattern without its closing $, which accepts
\* anything after the third number.
ParseVersionUnanchored(text) ==
    LET s1 == IF text # << >> /\ Head(text) = "v" THEN Tail(text) ELSE text
        d1 == DigitRun(s1)
        s2 == Drop(s1, Len(d1))
        d2 == IF s2 # << >> /\ Head(s2) = "." THEN DigitRun(Tail(s2)) ELSE << >>
        s3 == Drop(s2, Len(d2) + 1)
        d3 == IF s3 # << >> /\ Head(s3) = "." THEN DigitRun(Tail(s3)) ELSE << >>
        s4 == Drop(s3, Len(d3) + 1)
    IN IF d1 = << >> \/ d2 = << >> \/ d3 = << >> THEN Null
       ELSE IF s4 # << >> /\ Head(s4) = "-" /\ Len(s4) >= 2
       THEN [ major |-> ParseInt(d1), minor |-> ParseInt(d2), patch |-> ParseInt(d3),
              prerelease |-> Tail(s4) ]
       ELSE [ major |-> ParseInt(d1), minor |-> ParseInt(d2), patch |-> ParseInt(d3),
              prerelease |-> NoPrerelease ]

\* parseVersion with the bug of a capture group that takes the hyphen along
\* ((-.+)? for (?:-(.+))?).
ParseVersionKeepHyphen(text) ==
    LET s1 == IF text # << >> /\ Head(text) = "v" THEN Tail(text) ELSE text
        d1 == DigitRun(s1)
        s2 == Drop(s1, Len(d1))
        d2 == IF s2 # << >> /\ Head(s2) = "." THEN DigitRun(Tail(s2)) ELSE << >>
        s3 == Drop(s2, Len(d2) + 1)
        d3 == IF s3 # << >> /\ Head(s3) = "." THEN DigitRun(Tail(s3)) ELSE << >>
        s4 == Drop(s3, Len(d3) + 1)
    IN IF d1 = << >> \/ d2 = << >> \/ d3 = << >> THEN Null
       ELSE IF s4 = << >>
       THEN [ major |-> ParseInt(d1), minor |-> ParseInt(d2), patch |-> ParseInt(d3),
              prerelease |-> NoPrerelease ]
       ELSE IF Head(s4) = "-" /\ Len(s4) >= 2
       THEN [ major |-> ParseInt(d1), minor |-> ParseInt(d2), patch |-> ParseInt(d3),
              prerelease |-> s4 ]
       ELSE Null

\* version.match(/^v?(\d+)\.(\d+)\.(\d+)(?:-(.+))?$/) turned into a Version, or Null.
ParseVersion(text) ==
    LET s1 == IF text # << >> /\ Head(text) = "v" THEN Tail(text) ELSE text
        d1 == DigitRun(s1)
        s2 == Drop(s1, Len(d1))
        d2 == IF s2 # << >> /\ Head(s2) = "." THEN DigitRun(Tail(s2)) ELSE << >>
        s3 == Drop(s2, Len(d2) + 1)
        d3 == IF s3 # << >> /\ Head(s3) = "." THEN DigitRun(Tail(s3)) ELSE << >>
        s4 == Drop(s3, Len(d3) + 1)
    IN IF d1 = << >> \/ d2 = << >> \/ d3 = << >> THEN Null
       ELSE IF s4 = << >>
       THEN [ major |-> ParseInt(d1), minor |-> ParseInt(d2), patch |-> ParseInt(d3),
              prerelease |-> NoPrerelease ]
       ELSE IF Head(s4) = "-" /\ Len(s4) >= 2
       THEN [ major |-> ParseInt(d1), minor |-> ParseInt(d2), patch |-> ParseInt(d3),
              prerelease |-> Tail(s4) ]
       ELSE Null

\* formatVersion with the bug of joining the prerelease without its hyphen
\* (`${base}${version.prerelease}`).
FormatVersionNoHyphen(version, includeV) ==
    LET base == NumText(version.major) \o << "." >> \o NumText(version.minor)
                \o << "." >> \o NumText(version.patch)
        pre == IF version.prerelease # NoPrerelease THEN version.prerelease ELSE << >>
    IN IF includeV THEN << "v" >> \o base \o pre ELSE base \o pre

\* formatVersion(version, includeV)
FormatVersion(version, includeV) ==
    LET base == NumText(version.major) \o << "." >> \o NumText(version.minor)
                \o << "." >> \o NumText(version.patch)
        pre == IF version.prerelease # NoPrerelease
               THEN << "-" >> \o version.prerelease ELSE << >>
    IN IF includeV THEN << "v" >> \o base \o pre ELSE base \o pre

\* bumpVersion with the bug of building the result from the argument
\* ({ ...version, patch: version.patch + 1 }), which carries the prerelease along.
BumpVersionSpread(version, bump) ==
    CASE bump = "major" -> [ version EXCEPT !.major = @ + 1, !.minor = 0, !.patch = 0 ]
      [] bump = "minor" -> [ version EXCEPT !.minor = @ + 1, !.patch = 0 ]
      [] bump = "patch" -> [ version EXCEPT !.patch = @ + 1 ]

\* bumpVersion with the bug of resetting the lower parts without incrementing on a minor bump.
BumpVersionMinorReset(version, bump) ==
    CASE bump = "major" ->
           [ major |-> version.major + 1, minor |-> 0, patch |-> 0, prerelease |-> NoPrerelease ]
      [] bump = "minor" ->
           [ major |-> version.major, minor |-> version.minor, patch |-> 0,
             prerelease |-> NoPrerelease ]
      [] bump = "patch" ->
           [ major |-> version.major, minor |-> version.minor, patch |-> version.patch + 1,
             prerelease |-> NoPrerelease ]

\* bumpVersion(version, bump): the object literals of the switch name no prerelease.
BumpVersion(version, bump) ==
    CASE bump = "major" ->
           [ major |-> version.major + 1, minor |-> 0, patch |-> 0, prerelease |-> NoPrerelease ]
      [] bump = "minor" ->
           [ major |-> version.major, minor |-> version.minor + 1, patch |-> 0,
             prerelease |-> NoPrerelease ]
      [] bump = "patch" ->
           [ major |-> version.major, minor |-> version.minor, patch |-> version.patch + 1,
             prerelease |-> NoPrerelease ]

Prereleases == { NoPrerelease, << "b", "e", "t", "a", ".", "1" >>, << "r", "c", "-", "2" >> }

InputVersions ==
    { [ major |-> a, minor |-> b, patch |-> c, prerelease |-> p ] :
        a \in 0..MaxNum, b \in 0..MaxNum, c \in 0..MaxNum, p \in Prereleases }

(***************************************************************************)
(* updateChangelog (src/CHANGELOG.md:324-387) on the parsed document       *)
(***************************************************************************)
Items == { "A", "B" }

\* new Release(): no version, no date, no changes.
FreshRelease == [ version |-> NoVersion, date |-> "", changes |-> EmptyChanges ]

\* new Release(bareVersion, date)
NewRelease(bareVersion, date) == [ version |-> bareVersion, date |-> date, changes |-> EmptyChanges ]

\* StripV with the bug of comparing the version as it was given.
StripVKept(version) == version

\* version.replace(/^v/, '')
StripV(version) ==
    IF Len(version) > 0 /\ version[1] = "v" THEN Tail(version) ELSE version

\* changelog.releases.find(r => r.version?.toString() === bareVersion), as an index; 0 when none.
FindRelease(rels, bareVersion) ==
    LET hits == { i \in 1..Len(rels) :
                    rels[i].version # NoVersion /\ rels[i].version = bareVersion }
    IN IF hits = {} THEN 0 ELSE CHOOSE i \in hits : \A j \in hits : i <= j

\* changelog.releases.findIndex(r => !r.version); 0 when none (-1 in the code).
FindUnreleasedIndex(rels) ==
    LET hits == { i \in 1..Len(rels) : rels[i].version = NoVersion }
    IN IF hits = {} THEN 0 ELSE CHOOSE i \in hits : \A j \in hits : i <= j

InsertAt(rels, r, p) ==
    [ i \in 1..(Len(rels) + 1) |->
        IF i < p THEN rels[i] ELSE IF i = p THEN r ELSE rels[i - 1] ]

RemoveAt(rels, p) ==
    [ i \in 1..(Len(rels) - 1) |-> IF i < p THEN rels[i] ELSE rels[i + 1] ]

\* changelog.addRelease(release): the release joins changelog.releases.  Where it
\* lands is decided inside the keep-a-changelog package, whose code is not part
\* of this repository: every position is a possible outcome here.
AddRelease(rels, r) ==
    { [ rels |-> InsertAt(rels, r, p), target |-> p ] : p \in 1..(Len(rels) + 1) }

\* release[methodName](item) for every item of every category of 'src', in order:
\* each call appends the item to the release's list of that category.
AppendAll(changes, src) == [ c \in Categories |-> changes[c] \o src[c] ]

\* MergeUnreleased with the bug of assigning the Unreleased items of a category
\* over the target's list instead of appending them.
MergeUnreleasedOverwrite(rels, target) ==
    LET u == FindUnreleasedIndex(rels)
    IN IF u = 0 THEN rels
       ELSE [ rels EXCEPT ![target].changes =
                [ c \in Categories |->
                    IF rels[u].changes[c] = << >> THEN @[c] ELSE rels[u].changes[c] ] ]

\* Lines 353-365: the first release without a version gives its items to the target.
MergeUnreleased(rels, target) ==
    LET u == FindUnreleasedIndex(rels)
    IN IF u = 0 THEN rels
       ELSE [ rels EXCEPT ![target].changes = AppendAll(@, rels[u].changes) ]

\* ClearUnreleased with the bug of pushing the fresh Release instead of assigning it.
ClearUnreleasedPush(rels, u) ==
    IF u = 0 THEN rels ELSE Append(rels, FreshRelease)

\* Line 367: changelog.releases[unreleasedIndex] = new Release()
ClearUnreleased(rels, u) ==
    IF u = 0 THEN rels ELSE [ rels EXCEPT ![u] = FreshRelease ]

RECURSIVE AppendNew(_, _)
AppendNew(list, items) ==
    IF items = << >> THEN list
    ELSE AppendNew(IF \E i \in 1..Len(list) : list[i] = Head(items)
                   THEN list ELSE Append(list, Head(items)),
                   Tail(items))

\* AppendPrChanges with the bug of skipping an item the target already lists.
AppendPrChangesDedup(rels, target, prChanges) ==
    [ rels EXCEPT ![target].changes =
        [ c \in Categories |-> AppendNew(@[c], prChanges[c]) ] ]

\* Lines 371-378: the PR-generated entries are appended to the target.
AppendPrChanges(rels, target, prChanges) ==
    [ rels EXCEPT ![target].changes = AppendAll(@, prChanges) ]

\* Lines 341-378 for one way the package may place a new release.
UpdatedReleases(rels, version, date, prChanges) ==
    LET bareVersion == StripV(version)
        found == FindRelease(rels, bareVersion)
        placed == IF found = 0
                  THEN AddRelease(rels, NewRelease(bareVersion, date))
                  ELSE { [ rels |-> rels, target |-> found ] }
    IN { AppendPrChanges(
           ClearUnreleased(MergeUnreleased(p.rels, p.target), FindUnreleasedIndex(p.rels)),
           p.target, prChanges) : p \in placed }

\* Inputs of the document machine.
DocVersions == { VerText(1, 0, 0), VerText(2, 0, 0) }

CallVersions == { << "v" >> \o VerText(1, 0, 0), VerText(1, 0, 5) }

InitDate == "2024-01-01"

CallDate == "2024-01-15"

InitChangeSets ==
    { EmptyChanges, [ EmptyChanges EXCEPT !["Added"] = << "A" >>, !["Fixed"] = << "B", "A" >> ] }

PrChangeSets ==
    { EmptyChanges,
      [ EmptyChanges EXCEPT !["Added"] = << "A" >> ],
      [ EmptyChanges EXCEPT !["Added"] = << "B" >>, !["Security"] = << "A", "B" >> ] }

InitReleases ==
    { [ version |-> NoVersion, date |-> "", changes |-> cs ] : cs \in InitChangeSets }
    \cup { [ version |-> v, date |-> InitDate, changes |-> cs ] :
             v \in DocVersions, cs \in InitChangeSets }

CountUnreleased(rels) == Cardinality({ i \in 1..Len(rels) : rels[i].version = NoVersion })

\* The documents the parser hands over: any order of releases, at most one of them Unreleased.
InitDocs == { d \in SeqsUpTo(InitReleases, MaxInitReleases) : CountUnreleased(d) <= 1 }

NoCall == [ called |-> FALSE, version |-> << >>, date |-> "", prChanges |-> EmptyChanges,
            parserThrew |-> FALSE, before |-> << >> ]

CatIdle ==
    /\ lines = << >> /\ pos = 1 /\ currentSection = "" /\ categories = EmptyChanges
    /\ routed = "none"

RunIdle ==
    /\ pc = "idle" /\ env = << >> /\ pr = << >> /\ bumpType = "" /\ newTag = << >>
    /\ effects = << >> /\ outputs = << >> /\ failed = 0 /\ failure = ""
    /\ changelog = << >> /\ written = << >> /\ release = << >>

TxtIdle ==
    /\ vstage = "idle" /\ vflag = FALSE /\ vtext = << >> /\ vparsed = Null /\ vback = << >>

VerIdle == ver = Null /\ bumpArg = "" /\ bumped = Null /\ TxtIdle

NormIdle == rendered = << >> /\ result = << >> /\ again = << >> /\ passes = 0

DocIdle == releases = << >> /\ last = NoCall /\ calls = 0 /\ NormIdle

Init ==
    /\ releases \in InitDocs
    /\ last = NoCall
    /\ calls = 0
    /\ NormIdle
    /\ CatIdle /\ RunIdle /\ VerIdle

\* new Changelog('Changelog'): a changelog without releases.
FreshChangelog == << >>

\* Parsed with the bug of a catch block that keeps what the parser had read.
ParsedKeepingRead(rels, parserThrows) == rels

\* Lines 332-338: the releases of parser(changelogContent), or of a fresh changelog
\* when the parser throws.  Whether it throws on a text is the library's matter;
\* when it does, rels (what a repaired text would hold) is not read.
Parsed(rels, parserThrows) == IF parserThrows THEN FreshChangelog ELSE rels

\* One call of updateChangelog on the document left by the previous one.
UpdateChangelog ==
    /\ calls < MaxCalls
    /\ \E version \in CallVersions, prChanges \in PrChangeSets, parserThrows \in BOOLEAN :
         /\ releases' \in UpdatedReleases(Parsed(releases, parserThrows), version, CallDate,
                                          prChanges)
         /\ last' = [ called |-> TRUE, version |-> version, date |-> CallDate,
                      prChanges |-> prChanges, parserThrew |-> parserThrows,
                      before |-> Parsed(releases, parserThrows) ]
    /\ calls' = calls + 1
    /\ UNCHANGED << normVars, catVars, runVars, verVars >>

Next == UpdateChangelog

Spec == Init /\ [][Next]_vars

(***************************************************************************)
(* categorizeChanges (src/CHANGELOG.md:151-213)                            *)
(*                                                                         *)
(* A line is a sequence of tokens; a token is a piece of text the regular  *)
(* expressions of the function never split: "#", " ", "-", "*", a word, or *)
(* a word with its colon.                                                  *)
(***************************************************************************)
\* toLowerCase() / the i flag, on the tokens that have upper-case letters.
Lower(tok) ==
    CASE tok = "Added" -> "added"
      [] tok = "Changed" -> "changed"
      [] tok = "FIXED" -> "fixed"
      [] tok = "Testing" -> "testing"
      [] tok = "Feat:" -> "feat:"
      [] tok = "X" -> "x"
      [] tok = "Y" -> "y"
      [] OTHER -> tok

\* headerMatch[1].charAt(0).toUpperCase() + headerMatch[1].slice(1).toLowerCase()
Capitalize(tok) ==
    CASE Lower(tok) = "added" -> "Added"
      [] Lower(tok) = "changed" -> "Changed"
      [] Lower(tok) = "deprecated" -> "Deprecated"
      [] Lower(tok) = "removed" -> "Removed"
      [] Lower(tok) = "fixed" -> "Fixed"
      [] Lower(tok) = "security" -> "Security"
      [] OTHER -> tok

RECURSIVE DropLeadingSpaces(_)
DropLeadingSpaces(s) ==
    IF s # << >> /\ Head(s) = " " THEN DropLeadingSpaces(Tail(s)) ELSE s

RECURSIVE DropTrailingSpaces(_)
DropTrailingSpaces(s) ==
    IF s # << >> /\ s[Len(s)] = " " THEN DropTrailingSpaces(SubSeq(s, 1, Len(s) - 1)) ELSE s

\* line.trim()
Trim(line) == DropTrailingSpaces(DropLeadingSpaces(line))

RECURSIVE DropLeadingHashes(_)
DropLeadingHashes(s) ==
    IF s # << >> /\ Head(s) = "#" THEN DropLeadingHashes(Tail(s)) ELSE s

\* The name captured by /^#+\s*(Added|Changed|Deprecated|Removed|Fixed|Security)\s*$/i,
\* << >> when the line does not match.
HeaderMatch(trimmed) ==
    LET rest == DropTrailingSpaces(DropLeadingSpaces(DropLeadingHashes(trimmed)))
    IN IF /\ trimmed # << >>
          /\ Head(trimmed) = "#"
          /\ Len(rest) = 1
          /\ Capitalize(rest[1]) \in Categories
       THEN rest
       ELSE << >>

\* The content captured by /^[-*]\s+(.+)$/, << >> when the line does not match.
BulletMatch(trimmed) ==
    IF /\ Len(trimmed) >= 3
       /\ trimmed[1] \in { "-", "*" }
       /\ trimmed[2] = " "
    THEN DropLeadingSpaces(Tail(trimmed))
    ELSE << >>

\* The category of the conventional prefix content starts with, "" when it has none
\* (the startsWith chain of lines 192-200).
PrefixCategory(content) ==
    LET p == Lower(Head(content))
    IN CASE p \in { "feat:", "add:" } -> "Added"
         [] p \in { "fix:", "bug:" } -> "Fixed"
         [] p \in { "remove:", "delete:" } -> "Removed"
         [] p = "deprecate:" -> "Deprecated"
         [] p = "security:" -> "Security"
         [] OTHER -> ""

\* content.replace(/^(feat|add):\s*/i, '') and its siblings
StripPrefix(content) == DropLeadingSpaces(Tail(content))

Push(cats, c, item) == [ cats EXCEPT ![c] = Append(@, item) ]

\* RouteBullet with the bug of adding at the front of the list (unshift for push).
RouteBulletUnshift(cats, section, content) ==
    LET Unshift(c, item) == [ cats EXCEPT ![c] = << item >> \o @ ]
    IN IF section # "" /\ section \in DOMAIN cats
       THEN Unshift(section, content)
       ELSE IF PrefixCategory(content) # ""
       THEN Unshift(PrefixCategory(content), StripPrefix(content))
       ELSE Unshift("Changed", content)

\* Lines 182-208: where a bullet's content goes.
RouteBullet(cats, section, content) ==
    IF section # "" /\ section \in DOMAIN cats
    THEN Push(cats, section, content)
    ELSE IF PrefixCategory(content) # ""
    THEN Push(cats, PrefixCategory(content), StripPrefix(content))
    ELSE IF section # ""
    THEN Push(cats, section, content)
    ELSE Push(cats, "Changed", content)

\* The lines a PR body is made of.
BodyLines ==
    { << "#", "#", "#", " ", "Added" >>,
      << "#", "#", " ", "FIXED" >>,
      << "#", "#", " ", "Testing" >>,
      << "-", " ", "fix:", " ", "X" >>,
      << "*", " ", "Feat:", "Y" >>,
      << "-", " ", "X" >>,
      << " ", "-", " ", " ", "Y", " " >>,
      << "X", " ", "Y" >>,
      << "-", " ", "[", "x", "]", " ", "Y" >>,
      << "-", "-", "-" >>,
      << >> }

NotRouted == [ kind |-> "none", content |-> << >>, section |-> "", before |-> EmptyChanges ]

InitCat ==
    /\ lines \in SeqsUpTo(BodyLines, MaxLines)
    /\ pos = 1
    /\ currentSection = ""
    /\ categories = EmptyChanges
    /\ routed = NotRouted
    /\ DocIdle /\ RunIdle /\ VerIdle

Routed(kind, content) ==
    [ kind |-> kind, content |-> content, section |-> currentSection, before |-> categories ]

\* Lines 170-177: a category heading becomes the current section.
CatHeading ==
    /\ pos <= Len(lines)
    /\ HeaderMatch(Trim(lines[pos])) # << >>
    /\ currentSection' = Capitalize(HeaderMatch(Trim(lines[pos]))[1])
    /\ routed' = Routed("heading", << >>)
    /\ pos' = pos + 1
    /\ UNCHANGED << lines, categories, docVars, runVars, verVars >>

\* Lines 180-209: a bullet is pushed onto one category.
CatBullet ==
    /\ pos <= Len(lines)
    /\ HeaderMatch(Trim(lines[pos])) = << >>
    /\ BulletMatch(Trim(lines[pos])) # << >>
    /\ categories' = RouteBullet(categories, currentSection, BulletMatch(Trim(lines[pos])))
    /\ routed' = Routed("bullet", BulletMatch(Trim(lines[pos])))
    /\ pos' = pos + 1
    /\ UNCHANGED << lines, currentSection, docVars, runVars, verVars >>

\* CatOther with the bug of a line that matches nothing ending the section.
CatOtherEndsSection ==
    /\ pos <= Len(lines)
    /\ HeaderMatch(Trim(lines[pos])) = << >>
    /\ BulletMatch(Trim(lines[pos])) = << >>
    /\ currentSection' = ""
    /\ routed' = Routed("other", << >>)
    /\ pos' = pos + 1
    /\ UNCHANGED << lines, categories, docVars, runVars, verVars >>

\* Any other line: the loop moves on.
CatOther ==
    /\ pos <= Len(lines)
    /\ HeaderMatch(Trim(lines[pos])) = << >>
    /\ BulletMatch(Trim(lines[pos])) = << >>
    /\ routed' = Routed("other", << >>)
    /\ pos' = pos + 1
    /\ UNCHANGED << lines, currentSection, categories, docVars, runVars, verVars >>

NextCat == CatHeading \/ CatBullet \/ CatOther

SpecCat == InitCat /\ [][NextCat]_vars

(***************************************************************************)
(* Labels (src/CHANGELOG.md:93-132)                                        *)
(***************************************************************************)
\* l.toLowerCase() on the labels that have upper-case letters.
LowerLabel(l) ==
    CASE l = "MAJOR" -> "major"
      [] l = "Skip-Release" -> "skip-release"
      [] l = "Breaking" -> "breaking"
      [] OTHER -> l

\* l.trim()
TrimLabel(l) ==
    CASE l = " Breaking " -> "Breaking"
      [] l = " minor" -> "minor"
      [] l = " " -> ""
      [] OTHER -> l

\* parseLabels, on the entries labelString.split(',') yields.
ParseLabels(entries) ==
    SelectSeq([ i \in 1..Len(entries) |-> LowerLabel(TrimLabel(entries[i])) ],
              LAMBDA l : l # "")

Includes(list, x) == \E i \in 1..Len(list) : list[i] = x

\* No decision (null).
NoBump == ""

\* determineBumpType with the bug of testing the tiers from the smallest up.
DetermineBumpTypePatchFirst(prLabels, majorLabels, minorLabels, patchLabels) ==
    LET normalizedPrLabels == { LowerLabel(l) : l \in prLabels }
    IN IF \E l \in normalizedPrLabels : Includes(patchLabels, l) THEN "patch"
       ELSE IF \E l \in normalizedPrLabels : Includes(minorLabels, l) THEN "minor"
       ELSE IF \E l \in normalizedPrLabels : Includes(majorLabels, l) THEN "major"
       ELSE NoBump

\* determineBumpType; the PR's labels are a set, as only membership is asked of them.
DetermineBumpType(prLabels, majorLabels, minorLabels, patchLabels) ==
    LET normalizedPrLabels == { LowerLabel(l) : l \in prLabels }
    IN IF \E i \in 1..Len(majorLabels) : majorLabels[i] \in normalizedPrLabels THEN "major"
       ELSE IF \E i \in 1..Len(minorLabels) : minorLabels[i] \in normalizedPrLabels THEN "minor"
       ELSE IF \E i \in 1..Len(patchLabels) : patchLabels[i] \in normalizedPrLabels THEN "patch"
       ELSE NoBump

\* shouldSkipRelease with the bug of comparing the PR's labels as written.
ShouldSkipReleaseCaseSensitive(prLabels, skipLabels) ==
    \E i \in 1..Len(skipLabels) : skipLabels[i] \in prLabels

\* shouldSkipRelease
ShouldSkipRelease(prLabels, skipLabels) ==
    LET normalizedPrLabels == { LowerLabel(l) : l \in prLabels }
    IN \E i \in 1..Len(skipLabels) : skipLabels[i] \in normalizedPrLabels

(***************************************************************************)
(* Changelog entries (src/CHANGELOG.md:151-317)                            *)
(*                                                                         *)
(* A text is the sequence of its lines (text.split('\n')), a line is a     *)
(* sequence of tokens as above; a version inside a line is spelled out in  *)
(* characters.  The empty text is one empty line.                          *)
(***************************************************************************)
\* The for loop of categorizeChanges from line k of the body on.
RECURSIVE CategorizeFrom(_, _, _, _)
CategorizeFrom(body, k, section, cats) ==
    IF k > Len(body) THEN cats
    ELSE LET trimmed == Trim(body[k])
         IN IF HeaderMatch(trimmed) # << >>
            THEN CategorizeFrom(body, k + 1, Capitalize(HeaderMatch(trimmed)[1]), cats)
            ELSE IF BulletMatch(trimmed) # << >>
            THEN CategorizeFrom(body, k + 1, section,
                                RouteBullet(cats, section, BulletMatch(trimmed)))
            ELSE CategorizeFrom(body, k + 1, section, cats)

\* categorizeChanges(prBody); a null or empty body is << >>.
CategorizeChanges(body) == CategorizeFrom(body, 1, "", EmptyChanges)

\* Lines 228-234: let hasChanges
HasChanges(cats) == \E c \in Categories : cats[c] # << >>

IsBlank(line) == Trim(line) = << >>

RECURSIVE DropLeadingBlank(_)
DropLeadingBlank(text) ==
    IF text # << >> /\ IsBlank(Head(text)) THEN DropLeadingBlank(Tail(text)) ELSE text

RECURSIVE DropTrailingBlank(_)
DropTrailingBlank(text) ==
    IF text # << >> /\ IsBlank(text[Len(text)])
    THEN DropTrailingBlank(SubSeq(text, 1, Len(text) - 1))
    ELSE text

\* text.trim(), on a text given by its lines
TrimText(text) ==
    LET core == DropTrailingBlank(DropLeadingBlank(text))
    IN IF core = << >> THEN << << >> >>
       ELSE IF Len(core) = 1 THEN << Trim(core[1]) >>
       ELSE << DropLeadingSpaces(core[1]) >> \o SubSeq(core, 2, Len(core) - 1)
            \o << DropTrailingSpaces(core[Len(core)]) >>

\* Lines 243-248: the lines of one section, `### ${section}\n`, `- ${item}`..., ''.
SectionLines(section, items) ==
    IF items = << >> THEN << >>
    ELSE << << "#", "#", "#", " ", section >>, << >> >>
         \o [ j \in 1..Len(items) |-> << "-", " " >> \o items[j] ]
         \o << << >> >>

\* SectionsFrom with the bug of building the text from the last category up
\* (sections.unshift for sections.push).
RECURSIVE SectionsFromLastFirst(_, _)
SectionsFromLastFirst(cats, i) ==
    IF i > Len(CategoryOrder) THEN << >>
    ELSE SectionsFromLastFirst(cats, i + 1)
         \o SectionLines(CategoryOrder[i], cats[CategoryOrder[i]])

\* Lines 241-250: the sections of the categories from the i-th on, in Map order.
RECURSIVE SectionsFrom(_, _)
SectionsFrom(cats, i) ==
    IF i > Len(CategoryOrder) THEN << >>
    ELSE SectionLines(CategoryOrder[i], cats[CategoryOrder[i]]) \o SectionsFrom(cats, i + 1)

\* generateChangelogEntry(pr, version, date)
GenerateChangelogEntry(p, version, date) ==
    LET found == CategorizeChanges(p.body)
        cats == IF HasChanges(found) THEN found ELSE Push(found, "Changed", p.title)
    IN [ version |-> version, date |-> date, content |-> TrimText(SectionsFrom(cats, 1)) ]

\* formatChangelogEntry(entry): `## [${entry.version}] - ${entry.date}\n\n${entry.content}`
FormatChangelogEntry(entry) ==
    << << "#", "#", " ", "[" >> \o entry.version \o << "]", " ", "-", " ", entry.date >>,
       << >> >>
    \o entry.content

\* The line starts a match of /^(##\s*\[v?\d+)/m.
IsVersionHeading(line) ==
    /\ Len(line) >= 2 /\ line[1] = "#" /\ line[2] = "#"
    /\ LET rest == DropLeadingSpaces(Drop(line, 2))
       IN /\ rest # << >> /\ Head(rest) = "["
          /\ LET num == IF Len(rest) >= 2 /\ rest[2] = "v" THEN Drop(rest, 2) ELSE Tail(rest)
             IN num # << >> /\ IsDigit(Head(num))

\* The index of the first line that matches, 0 without a match.
FirstVersionHeading(text) ==
    LET hits == { k \in 1..Len(text) : IsVersionHeading(text[k]) }
    IN IF hits = {} THEN 0 ELSE CHOOSE k \in hits : \A j \in hits : k <= j

\* The line starts a match of /^(#[^#].*\n(?:.*\n)*?)\n/m: a '#' not followed by
\* another, with an empty line that ends in a line break somewhere below.
IsHeaderStart(text, i) ==
    /\ Len(text[i]) >= 2 /\ text[i][1] = "#" /\ text[i][2] # "#"
    /\ \E m \in (i + 1)..(Len(text) - 1) : text[m] = << >>

\* The index of the empty line that ends the match starting at line i.
HeaderEnd(text, i) ==
    CHOOSE m \in (i + 1)..(Len(text) - 1) :
        /\ text[m] = << >>
        /\ \A j \in (i + 1)..(m - 1) : text[j] # << >>

\* insertChangelogEntry with the bug of putting the entry after the first version
\* heading's line instead of before it.
InsertChangelogEntryAfterHeading(text, entry) ==
    LET entryText == FormatChangelogEntry(entry)
        k == FirstVersionHeading(text)
        starts == { i \in 1..Len(text) : IsHeaderStart(text, i) }
    IN CASE k > 0 ->
              SubSeq(text, 1, k) \o entryText \o << << >> >>
              \o SubSeq(text, k + 1, Len(text))
         [] k = 0 /\ 1 \in starts ->
              SubSeq(text, 1, HeaderEnd(text, 1)) \o << << >> >> \o entryText
              \o SubSeq(text, HeaderEnd(text, 1) + 1, Len(text))
         [] k = 0 /\ starts = {} ->
              text \o << << >> >> \o entryText

\* insertChangelogEntry(changelog, entry).  In the second case the code takes the
\* length of the match for the offset of its end, which it is when the match
\* starts at the first character: the texts given here have their title, if
\* any, on the first line.
InsertChangelogEntry(text, entry) ==
    LET entryText == FormatChangelogEntry(entry)
        k == FirstVersionHeading(text)
        starts == { i \in 1..Len(text) : IsHeaderStart(text, i) }
    IN CASE k > 0 ->
              SubSeq(text, 1, k - 1) \o entryText \o << << >> >>
              \o SubSeq(text, k, Len(text))
         [] k = 0 /\ 1 \in starts ->
              SubSeq(text, 1, HeaderEnd(text, 1)) \o << << >> >> \o entryText
              \o SubSeq(text, HeaderEnd(text, 1) + 1, Len(text))
         [] k = 0 /\ starts = {} ->
              text \o << << >> >> \o entryText

\* \w, on the characters of a tag
IsWordChar(ch) == ch \notin { ".", "-", " ", "[", "]", "#" }

\* The pattern /v?\d+\.\d+\.\d+-\w+/ matches text from its first character on.
PrereleaseAt(text) ==
    LET d1 == DigitRun(text)
        s2 == Drop(text, Len(d1))
        d2 == IF s2 # << >> /\ Head(s2) = "." THEN DigitRun(Tail(s2)) ELSE << >>
        s3 == Drop(s2, Len(d2) + 1)
        d3 == IF s3 # << >> /\ Head(s3) = "." THEN DigitRun(Tail(s3)) ELSE << >>
    IN /\ d1 # << >> /\ d2 # << >> /\ d3 # << >>
       /\ \E n \in 1..Len(d3) :
            LET s4 == Drop(s3, n + 1)
            IN Len(s4) >= 2 /\ s4[1] = "-" /\ IsWordChar(s4[2])

\* isPrerelease(tagName): /v?\d+\.\d+\.\d+-\w+/.test(tagName)
IsPrerelease(tagName) == \E i \in 0..Len(tagName) : PrereleaseAt(Drop(tagName, i))

(***************************************************************************)
(* run (src/auto-release/src/run.ts:94-338)                                *)
(***************************************************************************)
\* The label inputs of the action, as split at the commas.
MajorLabelsInput == << "MAJOR", " Breaking " >>

MinorLabelsInput == << " minor", "", "feature" >>

PatchLabelsInput == << "patch", "fix", " " >>

SkipLabelsInput == << "Skip-Release" >>

\* getInputs, lines 105-108
Inputs ==
    [ majorLabels |-> ParseLabels(MajorLabelsInput),
      minorLabels |-> ParseLabels(MinorLabelsInput),
      patchLabels |-> ParseLabels(PatchLabelsInput),
      skipLabels |-> ParseLabels(SkipLabelsInput) ]

\* The labels a PR may carry.
PrLabelNames == { "MAJOR", "breaking", "feature", "fix", "docs", "Skip-Release", "skip-release" }

\* What listTags may return.
TagLists ==
    { << >>,
      << << "l", "a", "t", "e", "s", "t" >> >>,
      << << "v" >> \o VerText(1, 0, 0) >>,
      << << "l", "a", "t", "e", "s", "t" >>, VerText(1, 0, 5), << "v" >> \o VerText(2, 0, 0) >>,
      << << "v" >> \o VerText(1, 2, 3) \o << ".", "4" >> >>,
      << << "v" >> \o VerText(1, 0, 0) \o << "-", "b", "e", "t", "a", ".", "1" >> >> }

\* The awaited call that fails, if any: a rejected API or file call, or a git
\* command with a non-zero exit code.
FailPoints ==
    { "none", "pulls.list", "listTags", "writeFile", "commit", "push", "tag", "pushTag",
      "createRelease" }

\* pr.title
PrTitle == << "Title" >>

\* pr.body
PrBodies ==
    { << >>,
      << << "#", "#", "#", " ", "Added" >>, << "-", " ", "X" >> >>,
      << << "-", " ", "fix:", " ", "X" >>, << "*", " ", "Feat:", "Y" >> >> }

TitleLine == << "#", " ", "Changelog" >>

ReleasedLines ==
    << << "#", "#", " ", "[" >> \o VerText(1, 0, 0) \o << "]", " ", "-", " ", InitDate >>,
       << >>,
       << "-", " ", "Initial release" >>,
       << >> >>

UnreleasedLines ==
    << << "#", "#", " ", "[", "Unreleased", "]" >>,
       << >>,
       << "#", "#", "#", " ", "Added" >>,
       << >>,
       << "-", " ", "A" >>,
       << >> >>

\* What readFile may return: a changelog with a release, one with Unreleased
\* items above a release, and one without releases.
ChangelogFiles ==
    { << TitleLine, << >> >> \o ReleasedLines,
      << TitleLine, << >> >> \o UnreleasedLines \o ReleasedLines,
      << TitleLine, << >>, << "No releases yet." >> >> }

\* Lines 286-293: the text of a new changelog.
ChangelogTemplate ==
    << TitleLine,
       << >>,
       << "All notable changes to this project will be documented in this file." >>,
       << >>,
       << "The format is based on [Keep a Changelog](http://keepachangelog.com/)" >>,
       << "and this project adheres to [Semantic Versioning](http://semver.org/)." >>,
       << >>,
       << >> >>

\* The changelog file is only there to be read when reading does not fail.
Envs ==
    { [ defaultBump |-> d, prFound |-> f, prLabels |-> ls, prBody |-> b, tags |-> ts,
        readFails |-> ( c = << >> ), file |-> c, failAt |-> x ] :
        d \in BumpTypes \cup { "invalid" }, f \in BOOLEAN,
        ls \in { ls \in SUBSET PrLabelNames : Cardinality(ls) <= MaxLabels },
        b \in PrBodies, ts \in TagLists, c \in ChangelogFiles \cup { << >> },
        x \in FailPoints }

NoPR == [ found |-> FALSE, labels |-> {}, title |-> << >>, body |-> << >> ]

NoRelease == [ called |-> FALSE ]

NoOutputs == [ skipped |-> "", version |-> << >>, tag |-> << >>, release_url |-> "" ]

InitRun ==
    /\ pc = "getInputs"
    /\ env \in Envs
    /\ pr = NoPR
    /\ bumpType = ""
    /\ newTag = << >>
    /\ effects = << >>
    /\ outputs = NoOutputs
    /\ failed = 0
    /\ failure = ""
    /\ changelog = << >>
    /\ written = << >>
    /\ release = NoRelease
    /\ DocIdle /\ CatIdle /\ VerIdle

idleVars == << docVars, catVars, verVars >>

\* Fail with the bug of a catch block that swallows the error.
FailSwallowed(message) == pc' = "done" /\ UNCHANGED << failed, failure >>

\* The catch block of run: setFailed(error.message), and run returns.
Fail(message) == failed' = failed + 1 /\ failure' = message /\ pc' = "done"

\* /^v?\d+\.\d+\.\d+/.test(tag.name)
IsSemverTag(name) ==
    LET s1 == IF name # << >> /\ Head(name) = "v" THEN Tail(name) ELSE name
        d1 == DigitRun(s1)
        s2 == Drop(s1, Len(d1))
        d2 == IF s2 # << >> /\ Head(s2) = "." THEN DigitRun(Tail(s2)) ELSE << >>
        s3 == Drop(s2, Len(d2) + 1)
        d3 == IF s3 # << >> /\ Head(s3) = "." THEN DigitRun(Tail(s3)) ELSE << >>
    IN d1 # << >> /\ d2 # << >> /\ d3 # << >>

\* getLatestTag with the bug of keeping the last tag that looks like a version
\* (a loop without its return).
LatestTagLast(tags) ==
    LET hits == { i \in 1..Len(tags) : IsSemverTag(tags[i]) }
    IN IF hits = {} THEN << >> ELSE tags[CHOOSE i \in hits : \A j \in hits : i >= j]

\* getLatestTag: the first tag of the listing that looks like a version; << >> for null.
LatestTag(tags) ==
    LET hits == { i \in 1..Len(tags) : IsSemverTag(tags[i]) }
    IN IF hits = {} THEN << >> ELSE tags[CHOOSE i \in hits : \A j \in hits : i <= j]

\* NewTag with the bug of reading the baseline from the tag's leading numbers, as the
\* tag filter does, instead of starting from 0.0.0 when the tag does not parse.
NewTagFromPrefix(latestTag, bump) ==
    LET parsed == ParseVersionUnanchored(IF latestTag = << >>
                                         THEN << "v" >> \o VerText(0, 0, 0)
                                         ELSE latestTag)
        currentVersion ==
            IF parsed = Null
            THEN [ major |-> 0, minor |-> 0, patch |-> 0, prerelease |-> NoPrerelease ]
            ELSE parsed
    IN FormatVersion(BumpVersion(currentVersion, bump), TRUE)

\* NewTag with the bug of a bump that keeps the prerelease of the latest tag.
NewTagKeepsPrerelease(latestTag, bump) ==
    LET parsed == ParseVersion(IF latestTag = << >> THEN << "v" >> \o VerText(0, 0, 0)
                               ELSE latestTag)
        currentVersion ==
            IF parsed = Null
            THEN [ major |-> 0, minor |-> 0, patch |-> 0, prerelease |-> NoPrerelease ]
            ELSE parsed
    IN FormatVersion(BumpVersionSpread(currentVersion, bump), TRUE)

\* Lines 268-277: the tag of the new version.
NewTag(latestTag, bump) ==
    LET parsed == ParseVersion(IF latestTag = << >> THEN << "v" >> \o VerText(0, 0, 0)
                               ELSE latestTag)
        currentVersion ==
            IF parsed = Null
            THEN [ major |-> 0, minor |-> 0, patch |-> 0, prerelease |-> NoPrerelease ]
            ELSE parsed
    IN FormatVersion(BumpVersion(currentVersion, bump), TRUE)

\* RunGetInputs with the bug of a getInputs that does not validate defaultBump.
RunGetInputsUnchecked ==
    /\ pc = "getInputs"
    /\ pc' = "findMergedPR"
    /\ UNCHANGED << env, pr, bumpType, newTag, effects, outputs, failed, failure, changelog,
                    written, release, idleVars >>

\* Line 228: getInputs throws on a defaultBump that is no bump type.
RunGetInputs ==
    /\ pc = "getInputs"
    /\ IF env.defaultBump \notin BumpTypes
       THEN Fail("Invalid defaultBump value")
       ELSE pc' = "findMergedPR" /\ UNCHANGED << failed, failure >>
    /\ UNCHANGED << env, pr, bumpType, newTag, effects, outputs, changelog, written, release,
                 idleVars >>

\* Lines 235-240: findMergedPR lists the closed PRs; without a merged PR for the
\* commit run reports skipped and returns.
RunFindMergedPR ==
    /\ pc = "findMergedPR"
    /\ effects' = Append(effects, "pulls.list")
    /\ IF env.failAt = "pulls.list"
       THEN /\ Fail("pulls.list rejected")
            /\ UNCHANGED << pr, outputs >>
       ELSE IF env.prFound
       THEN /\ pr' = [ found |-> TRUE, labels |-> env.prLabels, title |-> PrTitle,
                    body |-> env.prBody ]
            /\ pc' = "checkSkip"
            /\ UNCHANGED << outputs, failed, failure >>
       ELSE /\ outputs' = [ outputs EXCEPT !.skipped = "true" ]
            /\ pc' = "done"
            /\ UNCHANGED << pr, failed, failure >>
    /\ UNCHANGED << env, bumpType, newTag, changelog, written, release, idleVars >>

\* Lines 245-249: a skip label ends the run.
RunCheckSkip ==
    /\ pc = "checkSkip"
    /\ IF ShouldSkipRelease(pr.labels, Inputs.skipLabels)
       THEN outputs' = [ outputs EXCEPT !.skipped = "true" ] /\ pc' = "done"
       ELSE pc' = "determineBump" /\ UNCHANGED outputs
    /\ UNCHANGED << env, pr, bumpType, newTag, effects, failed, failure, changelog, written,
                 release, idleVars >>

\* Lines 252-264: the bump from the labels, or the default bump.
RunDetermineBump ==
    /\ pc = "determineBump"
    /\ LET fromLabels == DetermineBumpType(pr.labels, Inputs.majorLabels,
                                           Inputs.minorLabels, Inputs.patchLabels)
       IN bumpType' = IF fromLabels = NoBump THEN env.defaultBump ELSE fromLabels
    /\ pc' = "getLatestTag"
    /\ UNCHANGED << env, pr, newTag, effects, outputs, failed, failure, changelog, written, release,
                 idleVars >>

\* Lines 267-279: the latest tag is looked up, parsed (0.0.0 and a warning when it
\* does not parse) and bumped.
RunGetLatestTag ==
    /\ pc = "getLatestTag"
    /\ IF env.failAt = "listTags"
       THEN /\ effects' = Append(effects, "listTags")
            /\ Fail("listTags rejected")
            /\ UNCHANGED newTag
       ELSE LET latestTag == LatestTag(env.tags)
            IN /\ effects' =
                    IF latestTag # << >> /\ ParseVersion(latestTag) = Null
                    THEN effects \o << "listTags", "warning: tag" >>
                    ELSE Append(effects, "listTags")
               /\ newTag' = NewTag(latestTag, bumpType)
               /\ pc' = "readChangelog"
               /\ UNCHANGED << failed, failure >>
    /\ UNCHANGED << env, pr, bumpType, outputs, changelog, written, release, idleVars >>

\* Lines 282-295: the changelog is read; a failed read gives a warning and the template.
RunReadChangelog ==
    /\ pc = "readChangelog"
    /\ effects' = IF env.readFails THEN effects \o << "readFile", "warning: changelog" >>
                  ELSE Append(effects, "readFile")
    /\ changelog' = IF env.readFails THEN ChangelogTemplate ELSE env.file
    /\ pc' = "writeChangelog"
    /\ UNCHANGED << env, pr, bumpType, newTag, outputs, failed, failure, written, release,
                 idleVars >>

\* Lines 298-304: the entry is generated and inserted, and the changelog written.
RunWriteChangelog ==
    /\ pc = "writeChangelog"
    /\ effects' = Append(effects, "writeFile")
    /\ written' = InsertChangelogEntry(changelog,
                                       GenerateChangelogEntry(pr, newTag, CallDate))
    /\ IF env.failAt = "writeFile" THEN Fail("writeFile rejected")
       ELSE pc' = "commit" /\ UNCHANGED << failed, failure >>
    /\ UNCHANGED << env, pr, bumpType, newTag, outputs, changelog, release, idleVars >>

\* commitReleaseChanges, lines 204-216: git config, git add, git commit.
RunCommit ==
    /\ pc = "commit"
    /\ effects' = effects \o << "git config", "git config", "git add", "git add", "git commit" >>
    /\ IF env.failAt = "commit" THEN Fail("Failed to commit release changes")
       ELSE pc' = "push" /\ UNCHANGED << failed, failure >>
    /\ UNCHANGED << env, pr, bumpType, newTag, outputs, changelog, written, release,
                 idleVars >>

\* RunPush with the bug of a push whose exit code is not looked at.
RunPushUnchecked ==
    /\ pc = "push"
    /\ effects' = Append(effects, "git push")
    /\ pc' = "createTag"
    /\ UNCHANGED << env, pr, bumpType, newTag, outputs, failed, failure, changelog, written,
                    release, idleVars >>

\* commitReleaseChanges, lines 218-221: git push.
RunPush ==
    /\ pc = "push"
    /\ effects' = Append(effects, "git push")
    /\ IF env.failAt = "push" THEN Fail("Failed to push release changes")
       ELSE pc' = "createTag" /\ UNCHANGED << failed, failure >>
    /\ UNCHANGED << env, pr, bumpType, newTag, outputs, changelog, written, release,
                 idleVars >>

\* createTag, lines 180-187: git config, git tag.
RunCreateTag ==
    /\ pc = "createTag"
    /\ effects' = effects \o << "git config", "git config", "git tag" >>
    /\ IF env.failAt = "tag" THEN Fail("Failed to create tag")
       ELSE pc' = "pushTag" /\ UNCHANGED << failed, failure >>
    /\ UNCHANGED << env, pr, bumpType, newTag, outputs, changelog, written, release,
                 idleVars >>

\* createTag, lines 189-192: git push origin <tag>.
RunPushTag ==
    /\ pc = "pushTag"
    /\ effects' = Append(effects, "git push tag")
    /\ IF env.failAt = "pushTag" THEN Fail("Failed to push tag")
       ELSE pc' = "createRelease" /\ UNCHANGED << failed, failure >>
    /\ UNCHANGED << env, pr, bumpType, newTag, outputs, changelog, written, release,
                 idleVars >>

\* Lines 313-322: the release is created through the hosting API.
RunCreateRelease ==
    /\ pc = "createRelease"
    /\ effects' = Append(effects, "createRelease")
    /\ release' = [ called |-> TRUE, tag_name |-> newTag, name |-> newTag,
                    body |-> GenerateChangelogEntry(pr, newTag, CallDate).content,
                    draft |-> FALSE, prerelease |-> IsPrerelease(newTag) ]
    /\ IF env.failAt = "createRelease" THEN Fail("createRelease rejected")
       ELSE pc' = "setOutputs" /\ UNCHANGED << failed, failure >>
    /\ UNCHANGED << env, pr, bumpType, newTag, outputs, changelog, written,
                 idleVars >>

\* RunSetOutputs with the bug of a version output without the v
\* (setOutput('version', formatVersion(newVersion, false))).
RunSetOutputsBareVersion ==
    /\ pc = "setOutputs"
    /\ outputs' = [ version |-> Tail(newTag), tag |-> newTag, release_url |-> "html_url",
                    skipped |-> "false" ]
    /\ pc' = "done"
    /\ UNCHANGED << env, pr, bumpType, newTag, effects, failed, failure, changelog, written,
                    release, idleVars >>

\* Lines 327-330: the outputs of a release.
RunSetOutputs ==
    /\ pc = "setOutputs"
    /\ outputs' = [ version |-> newTag, tag |-> newTag, release_url |-> "html_url",
                    skipped |-> "false" ]
    /\ pc' = "done"
    /\ UNCHANGED << env, pr, bumpType, newTag, effects, failed, failure, changelog, written,
                 release, idleVars >>

NextRun ==
    \/ RunGetInputs
    \/ RunFindMergedPR
    \/ RunCheckSkip
    \/ RunDetermineBump
    \/ RunGetLatestTag
    \/ RunReadChangelog
    \/ RunWriteChangelog
    \/ RunCommit
    \/ RunPush
    \/ RunCreateTag
    \/ RunPushTag
    \/ RunCreateRelease
    \/ RunSetOutputs

SpecRun == InitRun /\ [][NextRun]_vars

(***************************************************************************)
(* Claims about updateChangelog (checked under Spec)                       *)
(***************************************************************************)
BareVersion == StripV(last.version)

TargetBefore == FindRelease(last.before, BareVersion)

TargetAfter == FindRelease(releases, BareVersion)

UnreleasedBefore == FindUnreleasedIndex(last.before)

HasItems(changes) == \E c \in Categories : changes[c] # << >>

\* The items the target release held when the call started (none for a new release).
PriorChanges ==
    IF TargetBefore = 0 THEN EmptyChanges ELSE last.before[TargetBefore].changes

\* The list after the call without the release the call created.
WithoutNewRelease ==
    IF TargetBefore = 0 THEN RemoveAt(releases, TargetAfter) ELSE releases

IsPrefix(s, t) == Len(s) <= Len(t) /\ \A i \in 1..Len(s) : s[i] = t[i]

Occurrences(list, x) == Cardinality({ i \in 1..Len(list) : list[i] = x })

\* C1: after updateChangelog on a document whose Unreleased release has items,
\* every category of the target release is (its items before the call), then the
\* Unreleased items of that category in order, then the prChanges items of that
\* category in order; and the Unreleased release is still at its place among the
\* releases the document had, with every category empty.
C1_UnreleasedThenPrChanges ==
    ( /\ last.called
      /\ UnreleasedBefore # 0
      /\ HasItems(last.before[UnreleasedBefore].changes) )
    => /\ TargetAfter # 0
       /\ \A c \in Categories :
            releases[TargetAfter].changes[c] =
                PriorChanges[c] \o last.before[UnreleasedBefore].changes[c] \o last.prChanges[c]
       /\ Len(WithoutNewRelease) = Len(last.before)
       /\ WithoutNewRelease[UnreleasedBefore].version = NoVersion
       /\ \A c \in Categories : WithoutNewRelease[UnreleasedBefore].changes[c] = << >>

\* C1 witness: a call merged Unreleased items and PR items into a release that had items.
C1_Witness ==
    /\ last.called
    /\ UnreleasedBefore # 0
    /\ last.before[UnreleasedBefore].changes["Added"] # << >>
    /\ PriorChanges["Added"] # << >>
    /\ last.prChanges["Added"] # << >>
    /\ Len(releases[TargetAfter].changes["Added"]) >= 3

\* C2: updateChangelog into a version that already has a Released entry only adds:
\* no release is created, the items the release held stay first in each category
\* in their order, every merged item is kept even when its text is already
\* listed, and every other Released entry is unchanged.
C2_AdditiveMerge ==
    ( last.called /\ TargetBefore # 0 )
    => /\ Len(releases) = Len(last.before)
       /\ TargetAfter = TargetBefore
       /\ \A c \in Categories :
            /\ IsPrefix(last.before[TargetBefore].changes[c], releases[TargetAfter].changes[c])
            /\ Len(releases[TargetAfter].changes[c]) =
                 Len(last.before[TargetBefore].changes[c])
                 + ( IF UnreleasedBefore = 0 THEN 0
                     ELSE Len(last.before[UnreleasedBefore].changes[c]) )
                 + Len(last.prChanges[c])
       /\ \A i \in 1..Len(last.before) :
            ( i # TargetBefore /\ last.before[i].version # NoVersion )
            => releases[i] = last.before[i]

\* C2 witness: an item equal to one the existing release listed was appended again.
C2_Witness ==
    /\ last.called
    /\ TargetBefore # 0
    /\ Occurrences(last.before[TargetBefore].changes["Added"], "A") = 1
    /\ Occurrences(last.prChanges["Added"], "A") = 1
    /\ Occurrences(releases[TargetAfter].changes["Added"], "A") >= 2

\* C4: every document reached by updateChangelog calls has at most one
\* Unreleased release.
C4_AtMostOneUnreleased == CountUnreleased(releases) <= 1

\* C4 witness: two calls were made on a document with an Unreleased release that had items.
C4_Witness ==
    /\ calls >= 2
    /\ CountUnreleased(releases) = 1
    /\ UnreleasedBefore # 0
    /\ Len(releases) >= 3


(***************************************************************************)
(* Claims about categorizeChanges (checked under SpecCat)                  *)
(***************************************************************************)
\* The category of the last category heading among the first k lines, "" when there is none.
RECURSIVE SectionSeen(_)
SectionSeen(k) ==
    IF k = 0 THEN ""
    ELSE IF HeaderMatch(Trim(lines[k])) # << >>
         THEN Capitalize(HeaderMatch(Trim(lines[k]))[1])
         ELSE SectionSeen(k - 1)

IsPlainBullet(line) ==
    /\ HeaderMatch(Trim(line)) = << >>
    /\ BulletMatch(Trim(line)) # << >>
    /\ PrefixCategory(BulletMatch(Trim(line))) = ""

IsPrefixedBullet(line) ==
    /\ HeaderMatch(Trim(line)) = << >>
    /\ BulletMatch(Trim(line)) # << >>
    /\ PrefixCategory(BulletMatch(Trim(line))) # ""

\* The category the claims give a bullet without prefix at line k.
PlainBucket(k) == IF SectionSeen(k - 1) = "" THEN "Changed" ELSE SectionSeen(k - 1)

\* The contents of the bullets without prefix among the first k lines that belong
\* to category c, in input order.
RECURSIVE PlainItems(_, _)
PlainItems(c, k) ==
    IF k = 0 THEN << >>
    ELSE IF IsPlainBullet(lines[k]) /\ PlainBucket(k) = c
         THEN Append(PlainItems(c, k - 1), BulletMatch(Trim(lines[k])))
         ELSE PlainItems(c, k - 1)

\* C5 (as claimed): a bullet whose content begins with a recognized prefix is
\* appended, prefix stripped, to the prefix's category, whatever section is active.
C5_PrefixWinsOverSection ==
    ( routed.kind = "bullet" /\ PrefixCategory(routed.content) # "" )
    => categories = Push(routed.before, PrefixCategory(routed.content),
                         StripPrefix(routed.content))

InitVer ==
    /\ ver \in InputVersions
    /\ bumpArg = ""
    /\ bumped = Null
    /\ TxtIdle
    /\ DocIdle /\ CatIdle /\ RunIdle

\* One call bumpVersion(ver, bump).
Bump ==
    /\ bumpArg = ""
    /\ \E bump \in BumpTypes :
         /\ bumpArg' = bump
         /\ bumped' = BumpVersion(ver, bump)
    /\ UNCHANGED << ver, txtVars, docVars, catVars, runVars >>

\* One call parseVersion(formatVersion(ver, includeV)).
FormatThenParse ==
    /\ vstage = "idle"
    /\ \E includeV \in BOOLEAN :
         /\ vflag' = includeV
         /\ vtext' = FormatVersion(ver, includeV)
         /\ vparsed' = ParseVersion(FormatVersion(ver, includeV))
    /\ vstage' = "formatted"
    /\ UNCHANGED << ver, bumpArg, bumped, vback, docVars, catVars, runVars >>

NextVer == Bump \/ FormatThenParse

SpecVer == InitVer /\ [][NextVer]_vars

\* C9: a major bump gives (major+1, 0, 0), a minor bump (major, minor+1, 0), a
\* patch bump (major, minor, patch+1), and the result never has a prerelease.
C9_BumpResult ==
    ( bumpArg # "" )
    => /\ bumpArg = "major" =>
            bumped.major = ver.major + 1 /\ bumped.minor = 0 /\ bumped.patch = 0
       /\ bumpArg = "minor" =>
            bumped.major = ver.major /\ bumped.minor = ver.minor + 1 /\ bumped.patch = 0
       /\ bumpArg = "patch" =>
            bumped.major = ver.major /\ bumped.minor = ver.minor
            /\ bumped.patch = ver.patch + 1
       /\ bumped.prerelease = NoPrerelease
       /\ FormatVersion(bumped, TRUE) =
            << "v" >> \o NumText(bumped.major) \o << "." >> \o NumText(bumped.minor)
            \o << "." >> \o NumText(bumped.patch)

\* C9 witness: a version with a prerelease and non-zero lower parts was bumped.
C9_Witness ==
    /\ bumpArg = "minor"
    /\ ver.prerelease # NoPrerelease
    /\ ver.patch > 0
    /\ bumped.minor = ver.minor + 1

LexLess(v, w) ==
    \/ v.major < w.major
    \/ v.major = w.major /\ v.minor < w.minor
    \/ v.major = w.major /\ v.minor = w.minor /\ v.patch < w.patch

\* C10: the bumped version is strictly greater than the argument in the
\* lexicographic order of (major, minor, patch), for each bump type.
C10_BumpStrictlyGreater == ( bumpArg # "" ) => LexLess(ver, bumped)

\* C10 witness: a major bump lowered minor and patch and the result is still greater.
C10_Witness ==
    /\ bumpArg = "major"
    /\ ver.minor > 0 /\ ver.patch > 0
    /\ bumped.minor < ver.minor
    /\ LexLess(ver, bumped)


(***************************************************************************)
(* Claims about run (checked under SpecRun)                                *)
(***************************************************************************)
Performed(effect) == \E i \in 1..Len(effects) : effects[i] = effect

\* The work a skipped run must not do: tag listing, changelog access, git, release.
VersionOrChangelogWork ==
    { "listTags", "readFile", "writeFile", "git config", "git add", "git commit",
      "git push", "git tag", "git push tag", "createRelease" }

\* Some label of the PR, lowercased, is one of the given labels.
CarriesOneOf(prLabels, labels) ==
    \E l \in prLabels : \E i \in 1..Len(labels) : LowerLabel(l) = labels[i]

\* C7: when the merged PR that run found carries a skip label (the PR's label
\* compared in lower case), run does no version or changelog work at any point,
\* also when the PR carries a bump label as well, and it ends with output
\* skipped=true, no other output and no failure.
C7_SkipLabelStopsRun ==
    ( pr.found /\ CarriesOneOf(pr.labels, Inputs.skipLabels) )
    => /\ \A e \in VersionOrChangelogWork : ~Performed(e)
       /\ bumpType = "" /\ newTag = << >>
       /\ pc \in { "checkSkip", "done" }
       /\ pc = "done" => outputs = [ NoOutputs EXCEPT !.skipped = "true" ] /\ failed = 0

\* C7 witness: a PR with a skip label written in upper case and a major label ended the run.
C7_Witness ==
    /\ pc = "done"
    /\ pr.found
    /\ pr.labels = { "Skip-Release", "MAJOR" }
    /\ outputs.skipped = "true"

\* The bump the claims give a label set.
ClaimedBump(prLabels, defaultBump) ==
    IF CarriesOneOf(prLabels, Inputs.majorLabels) THEN "major"
    ELSE IF CarriesOneOf(prLabels, Inputs.minorLabels) THEN "minor"
    ELSE IF CarriesOneOf(prLabels, Inputs.patchLabels) THEN "patch"
    ELSE defaultBump

\* C8: the bump run uses is major when a label of the PR is a major label, else
\* minor when one is a minor label, else patch when one is a patch label, else
\* the default bump; determineBumpType gives no decision exactly when no tier
\* matches; and the new tag is the latest tag bumped by that type.
C8_BumpPrecedence ==
    /\ ( bumpType # "" ) => bumpType = ClaimedBump(pr.labels, env.defaultBump)
    /\ ( DetermineBumpType(env.prLabels, Inputs.majorLabels, Inputs.minorLabels,
                           Inputs.patchLabels) = NoBump )
       <=> ~CarriesOneOf(env.prLabels, Inputs.majorLabels \o Inputs.minorLabels
                                       \o Inputs.patchLabels)
    /\ ( newTag # << >> )
       => newTag = NewTag(LatestTag(env.tags), ClaimedBump(pr.labels, env.defaultBump))

\* C8 witness: a PR with a major label (in upper case) and a patch label was released as major.
C8_Witness ==
    /\ pc = "done"
    /\ pr.labels = { "MAJOR", "fix" }
    /\ env.defaultBump = "minor"
    /\ bumpType = "major"
    /\ outputs.version = << "v" >> \o VerText(2, 0, 0)

\* C8, second case reached: no label matched and the default bump was used.
C8_DefaultReached ==
    /\ pc = "done"
    /\ pr.labels = { "docs" }
    /\ env.defaultBump = "minor"
    /\ bumpType = "minor"
    /\ outputs.skipped = "false"

(***************************************************************************)
(* parseVersion applied to bounded texts, and formatVersion to its result  *)
(***************************************************************************)
\* Digit runs, empty and with leading zeros included.
NumTexts == SeqsUpTo({ "0", "1" }, MaxDigits)

TextPrefixes == { << >>, << "v" >>, << "v", "v" >>, << "x" >> }

TextSeparators == { << "." >>, << >> }

TextSuffixes ==
    { << >>, << "-" >>, << "-", "0", "1" >>, << "-", "b", ".", "1" >>, << ".", "4" >>,
      << "x" >> }

InputTexts ==
    { p \o n1 \o s1 \o n2 \o s2 \o n3 \o x :
        p \in TextPrefixes, n1 \in NumTexts, s1 \in TextSeparators, n2 \in NumTexts,
        s2 \in TextSeparators, n3 \in NumTexts, x \in TextSuffixes }

InitParse ==
    /\ vstage = "input"
    /\ vtext \in InputTexts
    /\ vflag = FALSE
    /\ vparsed = Null
    /\ vback = << >>
    /\ ver = Null /\ bumpArg = "" /\ bumped = Null
    /\ DocIdle /\ CatIdle /\ RunIdle

\* One call parseVersion(vtext) and, unless it returned null,
\* formatVersion(result, vtext.startsWith('v')).
ParseThenFormat ==
    /\ vstage = "input"
    /\ vparsed' = ParseVersion(vtext)
    /\ vflag' = ( vtext # << >> /\ Head(vtext) = "v" )
    /\ vback' = IF ParseVersion(vtext) = Null THEN << >>
                ELSE FormatVersion(ParseVersion(vtext), vtext # << >> /\ Head(vtext) = "v")
    /\ vstage' = "parsed"
    /\ UNCHANGED << vtext, ver, bumpArg, bumped, docVars, catVars, runVars >>

NextParse == ParseThenFormat

SpecParse == InitParse /\ [][NextParse]_vars

(***************************************************************************)
(* updateChangelog's last step: brackets around the versions of headings   *)
(***************************************************************************)
\* The longest run of non-whitespace characters text starts with.
RECURSIVE NonSpaceRun(_)
NonSpaceRun(text) ==
    IF text # << >> /\ Head(text) # " " THEN << Head(text) >> \o NonSpaceRun(Tail(text))
    ELSE << >>

\* What /^(## )(\d+\.\d+\.\d+(?:-[^\s]+)?)/ matches as $2 at the start of line,
\* << >> when the line does not match.
BareVersionAt(line) ==
    LET s1 == Drop(line, 3)
        d1 == DigitRun(s1)
        s2 == Drop(s1, Len(d1))
        d2 == DigitRun(Drop(s2, 1))
        s3 == Drop(s2, 1 + Len(d2))
        d3 == DigitRun(Drop(s3, 1))
        s4 == Drop(s3, 1 + Len(d3))
        suffix == IF s4 # << >> /\ Head(s4) = "-" /\ NonSpaceRun(Tail(s4)) # << >>
                  THEN << "-" >> \o NonSpaceRun(Tail(s4))
                  ELSE << >>
    IN  IF /\ Len(line) >= 3 /\ SubSeq(line, 1, 3) = << "#", "#", " " >>
           /\ d1 # << >>
           /\ s2 # << >> /\ Head(s2) = "." /\ d2 # << >>
           /\ s3 # << >> /\ Head(s3) = "." /\ d3 # << >>
        THEN d1 \o << "." >> \o d2 \o << "." >> \o d3 \o suffix
        ELSE << >>

\* The replace with a pattern without its optional (?:-[^\s]+)? group: the
\* bracket closes before a prerelease suffix.
NormalizeLineNoSuffix(line) ==
    LET whole == BareVersionAt(line)
        cut == IF \E i \in 1..Len(whole) : whole[i] = "-"
               THEN ( CHOOSE i \in 1..Len(whole) :
                        whole[i] = "-" /\ \A j \in 1..(i - 1) : whole[j] # "-" ) - 1
               ELSE Len(whole)
    IN  IF whole = << >> THEN line
        ELSE << "#", "#", " ", "[" >> \o SubSeq(whole, 1, cut) \o << "]" >>
                \o Drop(line, 3 + cut)

\* The replace on one line: '$1[$2]' for the match, the rest of the line kept.
NormalizeLine(line) ==
    LET version == BareVersionAt(line)
    IN  IF version = << >> THEN line
        ELSE << "#", "#", " ", "[" >> \o version \o << "]" >>
                \o Drop(line, 3 + Len(version))

\* result.replace(/^(## )(\d+\.\d+\.\d+(?:-[^\s]+)?)/gm, '$1[$2]'): with the g and
\* m flags the pattern is tried at the start of every line.
NormalizeHeadings(text) == [ i \in 1..Len(text) |-> NormalizeLine(text[i]) ]

\* Lines of a rendered changelog: release headings bare and bracketed, with a
\* date and without, with a prerelease, and lines that are no version heading.
RenderedLines ==
    { << "#", "#", " ", "1", ".", "0", ".", "0", " ", "-", " ", InitDate >>,
      << "#", "#", " ", "[", "1", ".", "0", ".", "0", "]", " ", "-", " ", InitDate >>,
      << "#", "#", " ", "1", ".", "0", ".", "0", "-", "b", ".", "1", " ", "-", " ", InitDate >>,
      << "#", "#", " ", "1", "0", ".", "2", ".", "3" >>,
      << "#", "#", " ", "1", ".", "0", ".", "0", ".", "4" >>,
      << "#", "#", " ", "1", ".", "0", ".", "0", "-", " ", "x" >>,
      << "#", "#", " ", "1", ".", "0", " ", "-", " ", InitDate >>,
      << "#", "#", " ", "v", "1", ".", "0", ".", "0", " ", "-", " ", InitDate >>,
      << "#", "#", " ", "[", "U", "]" >>,
      << "#", "#", "#", " ", "1", ".", "0", ".", "0" >>,
      << "-", " ", "1", ".", "0", ".", "0", " ", "x" >>,
      << >> }

RenderedTexts == SeqsUpTo(RenderedLines, MaxRendered)

InitNorm ==
    /\ rendered \in RenderedTexts
    /\ result = << >>
    /\ again = << >>
    /\ passes = 0
    /\ releases = << >> /\ last = NoCall /\ calls = 0
    /\ CatIdle /\ RunIdle /\ VerIdle

\* The replace of updateChangelog applied to changelog.toString().
Normalize ==
    /\ passes = 0
    /\ result' = NormalizeHeadings(rendered)
    /\ passes' = 1
    /\ UNCHANGED << rendered, again, releases, last, calls, catVars, runVars, verVars >>

\* The replace applied to a text it already returned, as when a changelog
\* written by one call is rendered unchanged by the next.
NormalizeAgain ==
    /\ passes = 1
    /\ again' = NormalizeHeadings(result)
    /\ passes' = 2
    /\ UNCHANGED << rendered, result, releases, last, calls, catVars, runVars, verVars >>

NextNorm == Normalize \/ NormalizeAgain

SpecNorm == InitNorm /\ [][NextNorm]_vars

(***************************************************************************)
(* Claims about formatVersion and parseVersion                             *)
(***************************************************************************)

\* C11: for every version (major, minor, patch and an optional prerelease) and
\* both values of the v-prefix flag, parsing the formatted text gives the
\* version back.
C11_ParseInvertsFormat == ( vstage = "formatted" ) => vparsed = ver

\* C11 witness: a version with a prerelease holding a hyphen was formatted
\* without the v and parsed back to itself.
C11_Witness ==
    /\ vstage = "formatted"
    /\ ~vflag
    /\ ver.prerelease = << "r", "c", "-", "2" >>
    /\ vtext = NumText(ver.major) \o << "." >> \o NumText(ver.minor) \o << "." >>
               \o NumText(ver.patch) \o << "-", "r", "c", "-", "2" >>
    /\ vparsed = ver

StartsWithV(text) == text # << >> /\ Head(text) = "v"

\* The part of an accepted text that holds the three numbers: everything
\* before the first hyphen.
NumericPart(text) ==
    LET hyphens == { i \in 1..Len(text) : text[i] = "-" }
    IN IF hyphens = {} THEN text
       ELSE SubSeq(text, 1, (CHOOSE i \in hyphens : \A j \in hyphens : i <= j) - 1)

\* A number of the text is written with a leading zero.
HasLeadingZero(text) ==
    LET np == NumericPart(text)
    IN \E i \in 1..(Len(np) - 1) :
         /\ np[i] = "0"
         /\ IsDigit(np[i + 1])
         /\ ( i = 1 \/ ~IsDigit(np[i - 1]) )

\* C12, as stated: for every text parseVersion accepts, leading zeros included,
\* formatting the parsed version with the text's own v-prefix gives the text back.
C12_FormatInvertsParse ==
    ( vstage = "parsed" /\ vparsed # Null ) => vback = vtext

\* C12, amended: for every text parseVersion accepts whose numbers are written
\* without leading zeros, formatting the parsed version with the text's own
\* v-prefix gives the text back.
C12_FormatInvertsParseCanonical ==
    ( vstage = "parsed" /\ vparsed # Null /\ ~HasLeadingZero(vtext) ) => vback = vtext

\* C12 witness: a v-prefixed text with a prerelease and no leading zeros came back.
C12_Witness ==
    /\ vstage = "parsed"
    /\ vtext = << "v", "1", "0", ".", "0", ".", "1", "1", "-", "0", "1" >>
    /\ vparsed = [ major |-> 10, minor |-> 0, patch |-> 11, prerelease |-> << "0", "1" >> ]
    /\ vback = vtext

\* C12: the accepted text '01.0.1' comes back as '1.0.1'.
C12_LeadingZeroLost ==
    /\ vstage = "parsed"
    /\ vtext = << "0", "1", ".", "0", ".", "1" >>
    /\ vparsed # Null
    /\ vback = << "1", ".", "0", ".", "1" >>

AllDigits(text) == text # << >> /\ \A i \in 1..Len(text) : IsDigit(text[i])

\* The text is an optional 'v', three digit runs separated by dots and an
\* optional hyphen with a non-empty suffix, and nothing else.
IsVersionText(text) ==
    LET body == IF StartsWithV(text) THEN Tail(text) ELSE text
    IN \E a \in 1..Len(body), b \in 1..Len(body), c \in 1..Len(body) :
         /\ a < b /\ b < c
         /\ body[a] = "." /\ body[b] = "."
         /\ AllDigits(SubSeq(body, 1, a - 1))
         /\ AllDigits(SubSeq(body, a + 1, b - 1))
         /\ AllDigits(SubSeq(body, b + 1, c))
         /\ \/ c = Len(body)
            \/ c + 2 <= Len(body) /\ body[c + 1] = "-"

\* C13: parseVersion returns null for every text that is not of the version
\* form: two-part texts, the empty text, texts with a fourth component.
C13_NullForOtherTexts ==
    ( vstage = "parsed" /\ ~IsVersionText(vtext) ) => vparsed = Null

\* C13 witness: a text with a fourth component was given and null returned.
C13_Witness ==
    /\ vstage = "parsed"
    /\ vtext = << "1", ".", "0", ".", "1", ".", "4" >>
    /\ vparsed = Null

\* C13, the cases the claim names: a two-part text and the empty text.
C13_TwoPart ==
    vstage = "parsed" /\ vtext = << "v", "1", ".", "0" >> /\ vparsed = Null

C13_Empty == vstage = "parsed" /\ vtext = << >> /\ vparsed = Null

\* Every text of the version form is accepted.
AcceptsVersionTexts ==
    ( vstage = "parsed" /\ IsVersionText(vtext) ) => vparsed # Null

(***************************************************************************)
(* Claims about the recoveries and outputs of run (checked under SpecRun)  *)
(***************************************************************************)
\* The tag getLatestTag selected does not parse as a version.
TagUnparsable ==
    LatestTag(env.tags) # << >> /\ ParseVersion(LatestTag(env.tags)) = Null

\* The tag of the bump of 0.0.0.
BumpOfZero(bump) ==
    CASE bump = "major" -> << "v", "1", ".", "0", ".", "0" >>
      [] bump = "minor" -> << "v", "0", ".", "1", ".", "0" >>
      [] bump = "patch" -> << "v", "0", ".", "0", ".", "1" >>

\* C14: when the selected latest tag does not parse as a version, run warns,
\* takes 0.0.0 for the baseline and goes on to release the bump of 0.0.0;
\* setFailed is only called when a later git or API step fails.
C14_UnparsableTagRecovery ==
    ( TagUnparsable /\ newTag # << >> )
    => /\ Performed("warning: tag")
       /\ newTag = BumpOfZero(bumpType)
       /\ failed > 0 => env.failAt # "none"
       /\ ( pc = "done" /\ env.failAt = "none" )
          => /\ failed = 0
             /\ outputs.skipped = "false"
             /\ outputs.tag = BumpOfZero(bumpType)
             /\ release.called /\ release.tag_name = BumpOfZero(bumpType)

\* C14 witness: the tag v1.2.3.4 led to a warning and to the release of v0.1.0.
C14_Witness ==
    /\ pc = "done"
    /\ env.tags = << << "v" >> \o VerText(1, 2, 3) \o << ".", "4" >> >>
    /\ IsSemverTag(env.tags[1])
    /\ Performed("warning: tag")
    /\ bumpType = "minor"
    /\ failed = 0
    /\ outputs.tag = << "v", "0", ".", "1", ".", "0" >>

\* A warning about the tag is only given for a tag that does not parse.
TagWarningOnlyWhenUnparsable == Performed("warning: tag") => TagUnparsable

\* C15: when defaultBump is not major, minor or patch, run calls setFailed and
\* stops before anything else happens: no API call, no changelog read or
\* write, no git command, no output.
C15_InvalidBumpStopsRun ==
    ( env.defaultBump \notin BumpTypes )
    => /\ pc \in { "getInputs", "done" }
       /\ pc = "done" => failed = 1
       /\ effects = << >>
       /\ outputs = NoOutputs
       /\ changelog = << >> /\ written = << >> /\ release = NoRelease

\* C15 witness: run ended in setFailed on an invalid defaultBump, with a merged
\* PR to release and nothing done.
C15_Witness ==
    /\ pc = "done"
    /\ env.defaultBump = "invalid"
    /\ env.prFound /\ env.prLabels = { "feature" } /\ env.failAt = "none"
    /\ failed = 1
    /\ effects = << >>

\* The heading line of the new version's entry.
EntryHeading == << "#", "#", " ", "[" >> \o newTag \o << "]", " ", "-", " ", CallDate >>

\* The lines of text at which line stands.
IndicesOf(text, line) == { i \in 1..Len(text) : text[i] = line }

\* C16: when reading the changelog fails, run warns, takes the template for
\* the document and goes on; the text written holds the template and, after
\* it, the entry of the new version: every line of the template stands above
\* the entry's heading.
C16_TemplateThenEntry ==
    ( env.readFails /\ written # << >> )
    => /\ Performed("warning: changelog")
       /\ changelog = ChangelogTemplate
       /\ failed > 0 => env.failAt # "none"
       /\ \E h \in IndicesOf(written, EntryHeading) :
            \A j \in 1..Len(ChangelogTemplate) :
                ChangelogTemplate[j] # << >>
                => \E i \in IndicesOf(written, ChangelogTemplate[j]) : i < h

\* What run writes instead: the entry stands between the title of the template
\* and its first paragraph, the paragraph right under the entry's last line.
C16_EntryInsideTemplate ==
    /\ env.readFails /\ written # << >>
    /\ SubSeq(written, 1, 4) = << TitleLine, << >>, << >>, EntryHeading >>
    /\ \E i \in IndicesOf(written, ChangelogTemplate[3]) :
         i > 4 /\ written[i - 1] # << >>

(***************************************************************************)
(* Claims about updateChangelog on a text that does not parse (under Spec) *)
(***************************************************************************)

\* C17: when parsing the changelog text fails, updateChangelog goes on from a
\* fresh, empty changelog and returns a document whose only release is the
\* target version's, holding exactly the items of prChanges.
C17_ParseFailureStartsFresh ==
    ( last.called /\ last.parserThrew )
    => /\ last.before = << >>
       /\ Len(releases) = 1
       /\ releases[1].version = BareVersion
       /\ releases[1].date = last.date
       /\ releases[1].changes = last.prChanges

\* C17 witness: the second call could not parse the text the first one had
\* filled, and returned the target release with the items of prChanges alone.
C17_Witness ==
    /\ calls = 2
    /\ last.parserThrew
    /\ last.version = << "v" >> \o VerText(1, 0, 0)
    /\ last.prChanges["Added"] = << "A" >>
    /\ Len(releases) = 1
    /\ releases[1].version = VerText(1, 0, 0)
    /\ releases[1].changes = last.prChanges

(***************************************************************************)
(* Claims about the outputs and the texts of run (checked under SpecRun)   *)
(***************************************************************************)
\* run returned after setting the outputs of a release.
Released == pc = "done" /\ failed = 0 /\ outputs.skipped = "false"

\* The values of the outputs that carry a version.
VersionOutputs == { outputs.version, outputs.tag }

\* C18, as stated: a successful, non-skipped run outputs the new version in both
\* forms, one output with the v ('v1.0.1') and one without ('1.0.1').
C18_BothForms ==
    Released => newTag \in VersionOutputs /\ Tail(newTag) \in VersionOutputs

\* C18, amended: a successful, non-skipped run sets the outputs version and tag
\* to the same v-prefixed text of the new version; no output carries the bare form.
C18_BothOutputsPrefixed ==
    Released
    => /\ outputs.version = newTag /\ outputs.tag = newTag
       /\ Head(newTag) = "v"
       /\ ParseVersion(Tail(newTag)) # Null
       /\ Tail(newTag) \notin VersionOutputs

\* C18 witness: the release after v1.0.0 by a patch bump set both outputs to v1.0.1.
C18_Witness ==
    /\ Released
    /\ env.tags = << << "v" >> \o VerText(1, 0, 0) >>
    /\ bumpType = "patch"
    /\ outputs.version = << "v" >> \o VerText(1, 0, 1)
    /\ outputs.tag = << "v" >> \o VerText(1, 0, 1)

\* A line `## ...` of a changelog text.
IsReleaseHeading(line) ==
    Len(line) >= 3 /\ line[1] = "#" /\ line[2] = "#" /\ line[3] # "#"

\* The last line of the release whose heading is line h.
SectionEnd(text, h) ==
    LET below == { i \in (h + 1)..Len(text) : IsReleaseHeading(text[i]) }
    IN IF below = {} THEN Len(text) ELSE (CHOOSE i \in below : \A j \in below : i <= j) - 1

\* The bullet lines of the releases of text whose heading is one of headings.
BulletsOf(text, headings) ==
    { text[i] : i \in { i \in 1..Len(text) :
                          /\ text[i] # << >> /\ Head(text[i]) = "-"
                          /\ \E h \in 1..(i - 1) :
                               text[h] \in headings /\ i <= SectionEnd(text, h) } }

UnreleasedHeading == << "#", "#", " ", "[", "Unreleased", "]" >>

\* The heading of the new version's release, with the v or bare.
NewVersionHeadings ==
    { EntryHeading,
      << "#", "#", " ", "[" >> \o Tail(newTag) \o << "]", " ", "-", " ", CallDate >> }

\* The bullet lines of the body given to createRelease.
BodyBullets ==
    { release.body[i] : i \in { i \in 1..Len(release.body) :
                                  release.body[i] # << >> /\ Head(release.body[i]) = "-" } }

\* C19: in a successful, non-skipped run over a changelog whose Unreleased
\* section holds items, the text written is the merged document (the
\* Unreleased items stand under the new version's release and the Unreleased
\* section is empty) and the body given to createRelease holds the Unreleased
\* items as well as the items of the PR.
C19_MergedDocument ==
    LET unreleased == BulletsOf(env.file, { UnreleasedHeading })
    IN ( Released /\ unreleased # {} )
       => /\ unreleased \subseteq BulletsOf(written, NewVersionHeadings)
          /\ BulletsOf(written, { UnreleasedHeading }) = {}
          /\ unreleased \subseteq BodyBullets

\* What run does instead: the Unreleased item stays where it was, and the entry
\* and the release body hold the items of the PR alone.
C19_UnreleasedLeftInPlace ==
    /\ Released
    /\ BulletsOf(env.file, { UnreleasedHeading }) = { << "-", " ", "A" >> }
    /\ BulletsOf(written, { UnreleasedHeading }) = { << "-", " ", "A" >> }
    /\ pr.body # << >>
    /\ BulletsOf(written, NewVersionHeadings) = BodyBullets
    /\ << "-", " ", "A" >> \notin BodyBullets

\* The tag of the bump of the version a tag name stands for, 0.0.0 when it
\* stands for none.
BumpOfTag(name, bump) ==
    LET parsed == ParseVersion(name)
        base == IF parsed = Null
                THEN [ major |-> 0, minor |-> 0, patch |-> 0, prerelease |-> NoPrerelease ]
                ELSE parsed
    IN FormatVersion(BumpVersion(base, bump), TRUE)

\* C20: the baseline is the first entry of the tag listing whose name matches
\* the version prefix pattern, whatever entries follow it; when no entry
\* matches, the baseline is 0.0.0.
C20_FirstMatchingTag ==
    ( newTag # << >> )
    => \/ /\ \A i \in 1..Len(env.tags) : ~IsSemverTag(env.tags[i])
          /\ newTag = BumpOfZero(bumpType)
       \/ \E i \in 1..Len(env.tags) :
            /\ IsSemverTag(env.tags[i])
            /\ \A j \in 1..(i - 1) : ~IsSemverTag(env.tags[j])
            /\ newTag = BumpOfTag(env.tags[i], bumpType)

\* C20 witness: of the listing latest, 1.0.5, v2.0.0 the second entry was the
\* baseline of a patch bump, not the greater third.
C20_Witness ==
    /\ Released
    /\ Len(env.tags) = 3
    /\ ~IsSemverTag(env.tags[1])
    /\ env.tags[2] = VerText(1, 0, 5)
    /\ env.tags[3] = << "v" >> \o VerText(2, 0, 0)
    /\ bumpType = "patch"
    /\ outputs.tag = << "v" >> \o VerText(1, 0, 6)

\* C20, the case without a matching entry: a patch bump gives v0.0.1.
C20_NoMatchingTag ==
    /\ Released
    /\ Len(env.tags) = 1 /\ ~IsSemverTag(env.tags[1])
    /\ bumpType = "patch"
    /\ outputs.tag = << "v", "0", ".", "0", ".", "1" >>

(***************************************************************************)
(* Claims about checkbox and separator lines (checked under SpecCat)       *)
(***************************************************************************)
\* The content of a bullet that is a task checkbox: '[ ] ...' or '[x] ...'.
IsCheckboxContent(item) ==
    Len(item) >= 3 /\ item[1] = "[" /\ item[2] \in { " ", "x" } /\ item[3] = "]"

\* C21: a task-checkbox line ('- [ ] ...', '- [x] ...') never becomes an item:
\* no category holds the content of a checkbox line.
C21_NoCheckboxItems ==
    \A c \in Categories : \A i \in 1..Len(categories[c]) :
        ~IsCheckboxContent(categories[c][i])

\* What categorizeChanges does instead: the checkbox line is a bullet like any
\* other and its content, brackets included, is an item of Changed.
C21_CheckboxBecomesItem ==
    /\ lines = << << "-", " ", "[", "x", "]", " ", "Y" >> >>
    /\ pos = 2
    /\ categories["Changed"] = << << "[", "x", "]", " ", "Y" >> >>

SeparatorLine == << "-", "-", "-" >>

\* The lines of the body above its first separator line, all of them when it
\* has none.
AboveSeparator(body) ==
    LET seps == { i \in 1..Len(body) : Trim(body[i]) = SeparatorLine }
    IN IF seps = {} THEN body
       ELSE SubSeq(body, 1, (CHOOSE i \in seps : \A j \in seps : i <= j) - 1)

\* C22: parsing stops at the first '---' line: once the loop is past it, the
\* categories and the section are those of the lines above it, whatever follows.
C22_StopsAtSeparator ==
    LET read == SubSeq(lines, 1, pos - 1)
    IN ( AboveSeparator(read) # read )
       => categories = CategorizeChanges(AboveSeparator(read))

\* What categorizeChanges does instead: the separator is skipped as any other
\* line and the bullet under it becomes an item.
C22_ItemBelowSeparator ==
    /\ lines = << SeparatorLine, << "-", " ", "X" >> >>
    /\ pos = 3
    /\ categories["Changed"] = << << "X" >> >>

(***************************************************************************)
(* Claims about the rendered release body (checked under SpecRun)          *)
(***************************************************************************)
CanonicalOrder == << "Added", "Changed", "Deprecated", "Removed", "Fixed", "Security" >>

\* The categories the entry is rendered from: those of the PR body, or the PR
\* title under Changed when the body gives none.
EntryCategories ==
    LET found == CategorizeChanges(pr.body)
    IN IF \E c \in Categories : found[c] # << >> THEN found
       ELSE [ found EXCEPT !["Changed"] = << pr.title >> ]

CategoryHeading(c) == << "#", "#", "#", " ", c >>

\* The lines of the body at which the heading of category c stands.
HeadingLines(c) == IndicesOf(release.body, CategoryHeading(c))

IsCategoryHeading(line) == \E c \in Categories : line = CategoryHeading(c)

NonEmptyLine(line) == line # << >>

\* The non-empty lines of the body between the heading at line h and the next
\* category heading.
LinesUnder(h) ==
    LET below == { i \in (h + 1)..Len(release.body) : IsCategoryHeading(release.body[i]) }
        end == IF below = {} THEN Len(release.body)
               ELSE (CHOOSE i \in below : \A j \in below : i <= j) - 1
    IN SelectSeq(SubSeq(release.body, h + 1, end), NonEmptyLine)

FirstToken(text) ==
    LET ends == { k \in 0..Len(text) :
                    /\ \A j \in 1..k : text[j] # " "
                    /\ ( k = Len(text) \/ text[k + 1] = " " ) }
    IN  SubSeq(text, 1, CHOOSE k \in ends : TRUE)

\* digits.digits.digits, or that followed by "-" and at least one character.
IsBareVersion(token) ==
    \E a, b, c \in 1..Len(token) :
        /\ a < b /\ b < c + 1
        /\ token[a] = "." /\ token[b] = "."
        /\ AllDigits(SubSeq(token, 1, a - 1))
        /\ AllDigits(SubSeq(token, a + 1, b - 1))
        /\ \/ /\ AllDigits(SubSeq(token, b + 1, c))
              /\ c = Len(token)
           \/ /\ AllDigits(SubSeq(token, b + 1, c))
              /\ c + 1 < Len(token)
              /\ token[c + 1] = "-"

\* A line that starts with "## " followed directly by digits.digits.digits.
StartsBare(line) ==
    /\ Len(line) >= 3 /\ SubSeq(line, 1, 3) = << "#", "#", " " >>
    /\ \E k \in 4..Len(line) :
          LET t == SubSeq(line, 4, k)
          IN  IsBareVersion(t) /\ \A i \in 1..Len(t) : t[i] # "-"

\* A heading "## <version>" or "## <version> <rest>" with a bare version.
IsBareHeading(line) ==
    /\ Len(line) >= 3 /\ SubSeq(line, 1, 3) = << "#", "#", " " >>
    /\ IsBareVersion(FirstToken(Drop(line, 3)))

Bracketed(line) ==
    LET version == FirstToken(Drop(line, 3))
    IN  << "#", "#", " ", "[" >> \o version \o << "]" >> \o Drop(line, 3 + Len(version))

\* line with "[" put after "## " and "]" put somewhere behind it, nothing else.
BracketsOnly(before, after) ==
    \E k \in 1..(Len(before) - 3) :
        after = << "#", "#", " ", "[" >> \o SubSeq(before, 4, 3 + k) \o << "]" >>
                   \o Drop(before, 3 + k)

\* C24: after the replace no line starts with "## " followed directly by
\* digits.digits.digits; a heading "## <digits>.<digits>.<digits>[-suffix]" has
\* become "## [<version>]" with the rest of its line unchanged; a line that is
\* no such heading is the same but for the two brackets, or entirely the same
\* when it did not start with a bare version; and applying the replace to its
\* own output changes nothing.
C24_BracketedHeadings ==
    /\ passes >= 1 =>
          /\ Len(result) = Len(rendered)
          /\ \A i \in 1..Len(result) :
                /\ ~StartsBare(result[i])
                /\ IsBareHeading(rendered[i]) => result[i] = Bracketed(rendered[i])
                /\ ( StartsBare(rendered[i]) /\ ~IsBareHeading(rendered[i]) )
                      => BracketsOnly(rendered[i], result[i])
                /\ ~StartsBare(rendered[i]) => result[i] = rendered[i]
    /\ passes = 2 => again = result

\* A bare heading with a prerelease suffix and a date was bracketed, and the
\* second application left the text alone.
C24_Witness ==
    /\ passes = 2
    /\ Len(rendered) = 2
    /\ rendered[1] = << "#", "#", " ", "1", ".", "0", ".", "0", "-", "b", ".", "1",
                         " ", "-", " ", InitDate >>
    /\ result[1] = << "#", "#", " ", "[", "1", ".", "0", ".", "0", "-", "b", ".", "1", "]",
                       " ", "-", " ", InitDate >>
    /\ rendered[2] = << "#", "#", " ", "[", "U", "]" >>
    /\ result[2] = rendered[2]
    /\ again = result

(***************************************************************************)
(* Claims about the lines categorizeChanges ignores                        *)
(***************************************************************************)
\* Lines that are neither a category heading nor a bullet: a blank line,
\* prose, a heading with another name, a rule.
IgnoredLines ==
    { << >>,
      << "X", " ", "Y" >>,
      << "#", "#", " ", "Testing" >>,
      << "-", "-", "-" >> }

RECURSIVE WithoutIgnored(_)
WithoutIgnored(text) ==
    IF text = << >> THEN << >>
    ELSE IF Head(text) \in IgnoredLines THEN WithoutIgnored(Tail(text))
    ELSE << Head(text) >> \o WithoutIgnored(Tail(text))

WithoutOneV(version) ==
    IF version # << >> /\ Head(version) = "v" THEN SubSeq(version, 2, Len(version))
    ELSE version

\* The positions of the Released entries of rels that carry version.
ReleasedAs(rels, version) ==
    { i \in 1..Len(rels) : rels[i].version # NoVersion /\ rels[i].version = version }

DistinctVersions(rels) ==
    \A i, j \in 1..Len(rels) :
        ( i # j /\ rels[i].version # NoVersion ) => rels[i].version # rels[j].version

\* C27: a call whose version, without one leading "v", is the version of a
\* Released entry of the document creates no release: the document has as many
\* releases as before, with the same versions and dates at the same positions;
\* and a call on a document whose Released entries have distinct versions
\* leaves a document whose Released entries have distinct versions.
C27_ExistingTargetNotDuplicated ==
    last.called =>
        /\ ReleasedAs(last.before, WithoutOneV(last.version)) # {} =>
              /\ Len(releases) = Len(last.before)
              /\ \A i \in 1..Len(releases) :
                    /\ releases[i].version = last.before[i].version
                    /\ releases[i].date = last.before[i].date
        /\ DistinctVersions(last.before) => DistinctVersions(releases)

\* The second call names v1.0.0 on a document that holds 1.0.0 once, next to
\* another release, and leaves two releases with the dates they had.
C27_Witness ==
    /\ calls = 2
    /\ last.called /\ ~last.parserThrew
    /\ last.version = << "v" >> \o VerText(1, 0, 0)
    /\ Len(last.before) = 2
    /\ DistinctVersions(last.before)
    /\ Cardinality(ReleasedAs(last.before, VerText(1, 0, 0))) = 1
    /\ Len(releases) = 2
    /\ Cardinality(ReleasedAs(releases, VerText(1, 0, 0))) = 1
    /\ \A i \in 1..2 : releases[i].date = last.before[i].date

(***************************************************************************)
(* Claims about the order of the release steps of run                      *)
(***************************************************************************)
\* The steps of a release, in the order the claim gives them.
PipelineSteps ==
    << "writeFile", "git commit", "git push", "git tag", "git push tag", "createRelease" >>

\* The message run reports when the git command of a step exits non-zero.
GitFailures ==
    [ commit |-> "Failed to commit release changes",
      push |-> "Failed to push release changes",
      tag |-> "Failed to create tag",
      pushTag |-> "Failed to push tag" ]

\* The pipeline step a failing git command belongs to.
GitStep ==
    [ commit |-> "git commit", push |-> "git push", tag |-> "git tag",
      pushTag |-> "git push tag" ]

OutputsSet == outputs # NoOutputs

\* C28: every release step happens at most once and only after all the steps
\* before it, and the outputs are set only after createRelease; when the git
\* command of the commit, the push, the tag or the tag push exits non-zero, run
\* ends with one setFailed carrying that step's message, the failing step is
\* the last one performed, createRelease was not called and no output was set.
C28_PipelineOrderAndAbort ==
    /\ \A k \in 1..Len(PipelineSteps) :
          /\ Cardinality(IndicesOf(effects, PipelineSteps[k])) <= 1
          /\ \A j \in 1..(k - 1) :
                \A a \in IndicesOf(effects, PipelineSteps[k]) :
                    \E b \in IndicesOf(effects, PipelineSteps[j]) : b < a
    /\ outputs.skipped = "false" => ( release.called /\ Performed("createRelease") )
    /\ ( env.failAt \in DOMAIN GitFailures /\ Performed(GitStep[env.failAt]) ) =>
          /\ pc = "done"
          /\ failed = 1
          /\ failure = GitFailures[env.failAt]
          /\ effects[Len(effects)] = GitStep[env.failAt]
          /\ ~release.called
          /\ ~Performed("createRelease")
          /\ ~OutputsSet

\* The push after a successful commit failed: the run stopped there.
C28_Witness ==
    /\ env.failAt = "push"
    /\ pc = "done"
    /\ Performed("writeFile") /\ Performed("git commit") /\ Performed("git push")
    /\ ~Performed("git tag")
    /\ failed = 1
    /\ failure = "Failed to push release changes"
    /\ outputs = NoOutputs

(***************************************************************************)
(* Claims about the outcomes of run                                        *)
(***************************************************************************)
OutcomeSkipped ==
    /\ outputs = [ NoOutputs EXCEPT !.skipped = "true" ]
    /\ failed = 0

OutcomeReleased ==
    /\ outputs.skipped = "false"
    /\ outputs.version # << >> /\ outputs.tag # << >> /\ outputs.release_url # ""
    /\ failed = 0

OutcomeFailed ==
    /\ failed = 1
    /\ outputs = NoOutputs

\* What the environment of a run makes of it, step by step.
InputsInvalid == env.defaultBump \notin { "major", "minor", "patch" }

NothingToRelease ==
    \/ ~env.prFound
    \/ CarriesOneOf(env.prLabels, Inputs.skipLabels)

ExpectedOutcome ==
    IF InputsInvalid \/ env.failAt = "pulls.list" THEN "failed"
    ELSE IF NothingToRelease THEN "skipped"
    ELSE IF env.failAt # "none" THEN "failed"
    ELSE "released"

\* C29: a run that has returned is in exactly one of three outcomes: skipped
\* (output skipped=true and nothing else), released (skipped=false with
\* version, tag and release_url) or failed (one setFailed and no output), and
\* it is the one its environment calls for: failed when a step raised, skipped
\* when no merged PR matched or a skip label is present, released otherwise.
\* A run that has not returned has set no output and reported no failure.
C29_ExactlyOneOutcome ==
    /\ failed <= 1
    /\ pc # "done" => ( outputs = NoOutputs /\ failed = 0 )
    /\ pc = "done" =>
          /\ OutcomeSkipped <=> ExpectedOutcome = "skipped"
          /\ OutcomeReleased <=> ExpectedOutcome = "released"
          /\ OutcomeFailed <=> ExpectedOutcome = "failed"
          /\ Cardinality({ o \in { "skipped", "released", "failed" } :
                             \/ o = "skipped" /\ OutcomeSkipped
                             \/ o = "released" /\ OutcomeReleased
                             \/ o = "failed" /\ OutcomeFailed }) = 1

\* createRelease was called and rejected: the run failed and set no output.
C29_Witness ==
    /\ pc = "done"
    /\ env.failAt = "createRelease"
    /\ release.called
    /\ OutcomeFailed /\ ~OutcomeSkipped /\ ~OutcomeReleased

(***************************************************************************)
(* Claims about the flags of the release run creates                       *)
(***************************************************************************)
HasHyphen(text) == \E i \in 1..Len(text) : text[i] = "-"

\* C30: whenever run has called createRelease, the release is for the new
\* tag, the new tag has no prerelease suffix, and the release was created with
\* prerelease false and draft false, whatever the latest tag of the repository.
C30_NeverPrereleaseNorDraft ==
    release.called =>
        /\ release.tag_name = newTag
        /\ ~HasHyphen(newTag)
        /\ release.prerelease = FALSE
        /\ release.draft = FALSE

\* The latest tag is the prerelease v1.0.0-beta.1 and the bump is a patch: the
\* release is v1.0.1 and no prerelease.
C30_Witness ==
    /\ env.tags = << << "v" >> \o VerText(1, 0, 0) \o << "-", "b", "e", "t", "a", ".", "1" >> >>
    /\ bumpType = "patch"
    /\ release.called
    /\ release.tag_name = << "v" >> \o VerText(1, 0, 1)
    /\ release.prerelease = FALSE
    /\ release.draft = FALSE

====
